---- MODULE Spec2Model ----
(***************************************************************************)
(* Model of MouseControl: the low-level mouse hook (core/mouse_hook.py),   *)
(* the HID++ gesture listener (hid_gesture.py) and the engine that wires   *)
(* the hook to the configuration (engine.py, core/config.py).              *)
(*                                                                         *)
(* Threads: the hook thread (low-level filter + hidden-window message      *)
(* loop), the HID++ listener thread, the foreground-app poller thread and  *)
(* the UI thread.  Attribute reads and writes of different threads         *)
(* interleave freely: the code takes no lock except Engine._lock.          *)
(***************************************************************************)
EXTENDS Integers, Sequences, FiniteSets, TLC

VARIABLES
    \* ---- MouseHook fields (mouse_hook.py:215-240)
    hook,               \* _hook: TRUE while the low-level filter is installed
    ri_hwnd,            \* _ri_hwnd: TRUE while the hidden window exists
    callbacks,          \* _callbacks: event kind -> sequence of handlers
    blocked_events,     \* _blocked_events
    invert_vscroll,
    invert_hscroll,
    pending_vscroll,    \* _pending_vscroll
    pending_hscroll,    \* _pending_hscroll
    vscroll_posted,     \* _vscroll_posted
    hscroll_posted,     \* _hscroll_posted
    gesture_active,     \* _gesture_active
    prev_raw_buttons,   \* _prev_raw_buttons: device handle -> last ulRawButtons
    msgq,               \* posted messages waiting in the hidden window's queue
    \* ---- the filter callback in progress (locals of _low_level_handler)
    fpc,                \* "idle" | "dispatch"
    f_event,            \* event: the classified kind, "none" when there is none
    f_raw_data,         \* event.raw_data: the magnitude of a scroll event, else 0
    f_should_block,     \* should_block
    \* ---- what the last filter call / window message did (observations)
    f_in,               \* the arguments of the last filter call; time (the
                        \* message's time stamp) tells one call from the next
    ret,                \* "next" = CallNextHookEx was called, "block" = returned 1,
                        \* "none" while the call has not returned
    dispatched,         \* the handlers _dispatch invoked in the last filter call
    fired,              \* the action ids handed to execute_action by them
    raised,             \* positions, in dispatched, of the handlers that raised
    injected,           \* inject_scroll calls made by the hook thread's last step
    ticksV,             \* inverted vertical ticks accumulated since the last flush
    ticksH,             \* inverted horizontal ticks accumulated since the last flush
    flushed,            \* the ticks the hook thread's last step flushed, if it flushed
    \* ---- Engine fields (engine.py:24-33)
    cfg,                \* self.cfg: [active_profile, invert_vscroll, invert_hscroll]
    current_profile,    \* _current_profile
    enabled,            \* _enabled
    lock,               \* _lock: "free" or the thread holding it
    epc,                \* position of the poller and UI threads
    etarget,            \* profile_name argument of _switch_profile ("none" outside it)
    eops,               \* hook.block / hook.register calls _setup_hooks still has to make
    profile_cb,         \* the profile name last handed to _profile_change_cb
    last_exe,           \* AppDetector._last_exe
    \* ---- HID++ listener (hid_gesture.py:72-83) and its thread
    hidapi_ok,          \* HIDAPI_OK: the hidapi module could be imported
    hg,                 \* the HidGestureListener object: _running, _dev, _feat_idx,
                        \* _dpi_idx, _dev_idx, _held, _pending_dpi, _dpi_result
    lis,                \* the listener thread: position, device indices left to
                        \* probe, the request _request is waiting on
    caller,             \* the thread inside set_dpi / read_dpi: position, result
    \* ---- the mouse
    device,             \* present, control diverted, request received and not
                        \* answered, reports sent and not yet read by the host
    button,             \* buttons held: the gesture button, another button
    riq,                \* WM_INPUT messages waiting in the hook thread's queue
    \* ---- observations
    hidObs,             \* requests transmitted and not resolved, control reports
                        \* handed to _on_report and callbacks made in this session,
                        \* how the last request resolved, a read failed in Listen
    gestureObs,         \* presses so far, gesture_down dispatches since the last
                        \* press, gesture_up dispatches since the last release
    \* ---- callers of the public interfaces
    api,                \* a thread calling register / block / unblock /
                        \* reset_bindings on the hook: its position, whether it has
                        \* called reset_bindings, its calls since the last one
    lookup,             \* the last get_profile_for_app call: configuration,
                        \* executable name, profile returned
    stopper,            \* the thread inside MouseHook.stop: its position, WM_QUIT
                        \* posted and not yet received, and the hook thread it
                        \* joins: in its message loop or ended
    wired               \* the mappings the binding table was last rebuilt from in
                        \* one piece

hookVars   == <<hook, ri_hwnd, callbacks, blocked_events, invert_vscroll,
                invert_hscroll, pending_vscroll, pending_hscroll, vscroll_posted,
                hscroll_posted, gesture_active, prev_raw_buttons, msgq>>
filterVars == <<fpc, f_event, f_raw_data, f_should_block, f_in, ret, dispatched, fired,
                raised>>
scrollObs  == <<injected, ticksV, ticksH, flushed>>
engineVars == <<cfg, current_profile, enabled, lock, epc, etarget, eops, profile_cb,
                last_exe>>
hidVars    == <<hidapi_ok, hg, lis, caller, device, hidObs>>
gestVars   == <<button, riq, gestureObs>>
callVars   == <<api, lookup, stopper, wired>>
vars       == <<hookVars, filterVars, scrollObs, engineVars, hidVars, gestVars,
                callVars>>

----------------------------------------------------------------------------
(* Windows constants, mouse_hook.py:19-31, 66-82, 196-198 *)
WM_MOUSEMOVE     == 512
WM_LBUTTONDOWN   == 513
WM_MBUTTONDOWN   == 519
WM_MBUTTONUP     == 520
WM_MOUSEWHEEL    == 522
WM_XBUTTONDOWN   == 523
WM_XBUTTONUP     == 524
WM_MOUSEHWHEEL   == 526
HC_ACTION        == 0
XBUTTON1         == 1
XBUTTON2         == 2
INJECTED_FLAG    == 1
STANDARD_BUTTON_MASK == 31
WM_APP_INJECT_VSCROLL == 32769
WM_APP_INJECT_HSCROLL == 32770
(* key_simulator.py:124-125 *)
MOUSEEVENTF_WHEEL  == 2048
MOUSEEVENTF_HWHEEL == 4096

Word  == 65536

(* MouseEvent kinds, mouse_hook.py:177-186 *)
Kinds == {"xbutton1_down", "xbutton1_up", "xbutton2_down", "xbutton2_up",
          "middle_down", "middle_up", "gesture_down", "gesture_up",
          "hscroll_left", "hscroll_right"}

(* A DWORD is kept as its two 16-bit words, [hi, lo]: its value is           *)
(* hi * 65536 + lo, which does not fit the checker's integers.               *)
DWordOf(n) == [hi |-> (n \div Word) % Word, lo |-> n % Word]

(* hiword(dword), mouse_hook.py:167-172: (dword >> 16) & 0xFFFF, read as a   *)
(* signed 16-bit value                                                       *)
hiword(dword) ==
    LET val == dword.hi % Word
    IN  IF val >= 32768 THEN val - Word ELSE val

(* MSLLHOOKSTRUCT.mouseData of a message whose high word is the signed value *)
(* d (the X button, or the wheel delta) and whose low word is 0              *)
MouseData(d) == [hi |-> d % Word, lo |-> 0]

(* a magnitude that keeps the sign of the delta *)
Abs_signed(n) == n

(* abs(delta), mouse_hook.py:358, 361 *)
Abs(n) == IF n < 0 THEN -n ELSE n

----------------------------------------------------------------------------
(* Configuration, core/config.py *)

(* BUTTON_TO_EVENTS.get(btn_key, ()) *)
BUTTON_TO_EVENTS(btn_key) ==
    CASE btn_key = "middle"        -> <<"middle_down", "middle_up">>
      [] btn_key = "gesture"       -> <<"gesture_down", "gesture_up">>
      [] btn_key = "xbutton1"      -> <<"xbutton1_down", "xbutton1_up">>
      [] btn_key = "xbutton2"      -> <<"xbutton2_down", "xbutton2_up">>
      [] btn_key = "hscroll_left"  -> <<"hscroll_left">>
      [] btn_key = "hscroll_right" -> <<"hscroll_right">>
      [] OTHER                     -> <<>>

(* DEFAULT_CONFIG["profiles"]["default"]["mappings"], in dict order *)
DefaultMappings ==
    << <<"middle", "none">>, <<"gesture", "none">>,
       <<"xbutton1", "alt_tab">>, <<"xbutton2", "alt_tab">>,
       <<"hscroll_left", "browser_back">>, <<"hscroll_right", "browser_forward">> >>

(* cfg["profiles"]: the default profile and one per-application profile as    *)
(* create_profile makes it (a copy of the default, edited by the user).       *)
ProfileNames == <<"default", "media">>
Profiles == {ProfileNames[i] : i \in 1..Len(ProfileNames)}

ProfileMappings(pname) ==
    IF pname = "media"
    THEN << <<"middle", "none">>, <<"gesture", "task_view">>,
            <<"xbutton1", "none">>, <<"xbutton2", "volume_up">>,
            <<"hscroll_left", "volume_down">>, <<"hscroll_right", "none">> >>
    ELSE DefaultMappings

(* executable names are sequences of character codes: "VLC.exe", "VLC.EXE",  *)
(* "Notepad.exe"                                                              *)
VLC_exe     == <<86, 76, 67, 46, 101, 120, 101>>
VLC_EXE     == <<86, 76, 67, 46, 69, 88, 69>>
Notepad_exe == <<78, 111, 116, 101, 112, 97, 100, 46, 101, 120, 101>>

ProfileApps(pname) == IF pname = "media" THEN <<VLC_exe>> ELSE <<>>

(* cfg["profiles"].items() as get_profile_for_app walks it: name and apps *)
CfgProfiles ==
    [i \in 1..Len(ProfileNames) |->
        [name |-> ProfileNames[i], apps |-> ProfileApps(ProfileNames[i])]]

(* a comparison that leaves the case of the names as it is *)
Lower_identity(s) == s

(* str.lower() on a name of ASCII characters: A..Z become a..z *)
Lower(s) ==
    [i \in 1..Len(s) |-> IF s[i] \in 65..90 THEN s[i] + 32 ELSE s[i]]

(* get_active_mappings(cfg) *)
get_active_mappings(c) ==
    IF c.active_profile \in Profiles THEN ProfileMappings(c.active_profile)
    ELSE ProfileMappings("default")

(* get_profile_for_app(cfg, exe_name): first profile, in dict order, whose    *)
(* apps list holds the name compared in lower case; "default" otherwise       *)
RECURSIVE ProfileForAppFrom(_, _, _)
ProfileForAppFrom(profiles, i, exe_name) ==
    IF i > Len(profiles) THEN "default"
    ELSE LET apps == profiles[i].apps
         IN  IF exe_name # <<>> /\ \E k \in 1..Len(apps) : Lower(apps[k]) = Lower(exe_name)
             THEN profiles[i].name
             ELSE ProfileForAppFrom(profiles, i + 1, exe_name)

get_profile_for_app(profiles, exe_name) == ProfileForAppFrom(profiles, 1, exe_name)

(* mappings.get(key, "none") *)
RECURSIVE MappingGet(_, _)
MappingGet(mappings, key) ==
    IF mappings = <<>> THEN "none"
    ELSE IF Head(mappings)[1] = key THEN Head(mappings)[2]
    ELSE MappingGet(Tail(mappings), key)

----------------------------------------------------------------------------
(* Engine._setup_hooks, engine.py:38-81, as the sequence of hook.block and    *)
(* hook.register calls it makes                                               *)

UpKinds      == {k \in Kinds : k \in {"xbutton1_up", "xbutton2_up", "middle_up", "gesture_up"}}
HScrollKinds == {"hscroll_left", "hscroll_right"}

(* _make_handler / _make_hscroll_handler: a closure over action_id *)
Handler(evt_type, action_id) ==
    [maker |-> IF evt_type \in HScrollKinds THEN "hscroll" ELSE "button",
     action |-> action_id]

NoHandler == [maker |-> "none", action |-> "none"]

(* a wiring that leaves the release of a mapped button unblocked *)
RECURSIVE EventOps_down_only(_, _)
EventOps_down_only(events, action_id) ==
    IF events = <<>> THEN <<>>
    ELSE LET evt_type == Head(events)
             blk == [op |-> "block", evt |-> evt_type, handler |-> NoHandler]
             reg == [op |-> "register", evt |-> evt_type,
                     handler |-> Handler(evt_type, action_id)]
             here == IF evt_type \in UpKinds
                     THEN <<>>
                     ELSE (IF action_id # "none" THEN <<blk, reg>> ELSE <<>>)
         IN  here \o EventOps_down_only(Tail(events), action_id)

RECURSIVE EventOps(_, _)
EventOps(events, action_id) ==
    IF events = <<>> THEN <<>>
    ELSE LET evt_type == Head(events)
             blk == [op |-> "block", evt |-> evt_type, handler |-> NoHandler]
             reg == [op |-> "register", evt |-> evt_type,
                     handler |-> Handler(evt_type, action_id)]
             here == IF evt_type \in UpKinds
                     THEN (IF action_id # "none" THEN <<blk>> ELSE <<>>)
                     ELSE (IF action_id # "none" THEN <<blk, reg>> ELSE <<>>)
         IN  here \o EventOps(Tail(events), action_id)

(* a fallback that does not look at the middle button's own mapping *)
gesture_uses_middle_fallback_always(mappings) ==
    MappingGet(mappings, "gesture") # "none"

gesture_uses_middle_fallback(mappings) ==
    MappingGet(mappings, "gesture") # "none" /\ MappingGet(mappings, "middle") = "none"

RECURSIVE SetupOpsFrom(_, _)
SetupOpsFrom(items, mappings) ==
    IF items = <<>> THEN <<>>
    ELSE LET btn_key   == Head(items)[1]
             action_id == Head(items)[2]
             events == IF btn_key = "gesture"
                       THEN BUTTON_TO_EVENTS("gesture") \o
                            (IF gesture_uses_middle_fallback(mappings)
                             THEN BUTTON_TO_EVENTS("middle") ELSE <<>>)
                       ELSE BUTTON_TO_EVENTS(btn_key)
         IN  EventOps(events, action_id) \o SetupOpsFrom(Tail(items), mappings)

SetupOps(mappings) == SetupOpsFrom(mappings, mappings)

(* MouseHook.block / MouseHook.register applied to a binding table *)
EmptyCallbacks == [k \in Kinds |-> <<>>]

(* a register that puts the new handler in front of the older ones *)
ApplyOp_prepend(table, o) ==
    IF o.op = "block"
    THEN [table EXCEPT !.blocked = @ \cup {o.evt}]
    ELSE [table EXCEPT !.callbacks[o.evt] = <<o.handler>> \o @]

ApplyOp(table, o) ==
    IF o.op = "block"
    THEN [table EXCEPT !.blocked = @ \cup {o.evt}]
    ELSE [table EXCEPT !.callbacks[o.evt] = Append(@, o.handler)]

RECURSIVE ApplyOps(_, _)
ApplyOps(table, ops) ==
    IF ops = <<>> THEN table ELSE ApplyOps(ApplyOp(table, Head(ops)), Tail(ops))

(* the binding table a completed rewiring leaves for a profile *)
FullTable(pname) ==
    ApplyOps([callbacks |-> EmptyCallbacks, blocked |-> {}],
             SetupOps(ProfileMappings(pname)))

----------------------------------------------------------------------------
(* MouseHook._low_level_handler, mouse_hook.py:282-371 *)

(* the classification of a button or horizontal-wheel message: the event kind *)
(* (or "none"), its magnitude, and the kind whose membership in               *)
(* _blocked_events decides should_block                                       *)
Classified(kind, mag) == [event |-> kind, mag |-> mag, blocked_by |-> kind]

NotClassified == [event |-> "none", mag |-> 0, blocked_by |-> "none"]

(* Classify with the copy-paste slip of testing the XBUTTON1 kind in the      *)
(* XBUTTON2 branch of WM_XBUTTONUP                                            *)
Classify_wrong_blocked_kind(wParam, mouse_data) ==
    LET xbutton == hiword(mouse_data)
        delta   == hiword(mouse_data)
    IN  CASE wParam = WM_XBUTTONDOWN ->
               IF xbutton = XBUTTON1 THEN Classified("xbutton1_down", 0)
               ELSE IF xbutton = XBUTTON2 THEN Classified("xbutton2_down", 0)
               ELSE NotClassified
          [] wParam = WM_XBUTTONUP ->
               IF xbutton = XBUTTON1 THEN Classified("xbutton1_up", 0)
               ELSE IF xbutton = XBUTTON2
               THEN [event |-> "xbutton2_up", mag |-> 0, blocked_by |-> "xbutton1_up"]
               ELSE NotClassified
          [] wParam = WM_MBUTTONDOWN -> Classified("middle_down", 0)
          [] wParam = WM_MBUTTONUP   -> Classified("middle_up", 0)
          [] wParam = WM_MOUSEHWHEEL ->
               IF delta > 0 THEN Classified("hscroll_left", Abs(delta))
               ELSE IF delta < 0 THEN Classified("hscroll_right", Abs(delta))
               ELSE NotClassified
          [] OTHER -> NotClassified

Classify(wParam, mouse_data) ==
    LET xbutton == hiword(mouse_data)
        delta   == hiword(mouse_data)
    IN  CASE wParam = WM_XBUTTONDOWN ->
               IF xbutton = XBUTTON1 THEN Classified("xbutton1_down", 0)
               ELSE IF xbutton = XBUTTON2 THEN Classified("xbutton2_down", 0)
               ELSE NotClassified
          [] wParam = WM_XBUTTONUP ->
               IF xbutton = XBUTTON1 THEN Classified("xbutton1_up", 0)
               ELSE IF xbutton = XBUTTON2 THEN Classified("xbutton2_up", 0)
               ELSE NotClassified
          [] wParam = WM_MBUTTONDOWN -> Classified("middle_down", 0)
          [] wParam = WM_MBUTTONUP   -> Classified("middle_up", 0)
          [] wParam = WM_MOUSEHWHEEL ->
               IF delta > 0 THEN Classified("hscroll_left", Abs(delta))
               ELSE IF delta < 0 THEN Classified("hscroll_right", Abs(delta))
               ELSE NotClassified
          [] OTHER -> NotClassified

(* a filter that does not look at the injected flag *)
IsInjected_never(flags) == FALSE

(* flags & INJECTED_FLAG *)
IsInjected(flags) == (flags \div INJECTED_FLAG) % 2 = 1

(* inject_scroll(flags, delta), key_simulator.py:128-139: the INPUT it sends *)
inject_scroll(flags, delta) == [dwFlags |-> flags, mouseData |-> DWordOf(delta)]

(* the wheel delta a synthesized event carries: mouseData as a signed DWORD *)
SignedDWord(d) ==
    IF d.hi >= 32768 THEN (d.hi - Word) * Word + d.lo ELSE d.hi * Word + d.lo

(* an accumulation that forgets the ticks already pending *)
Accumulate_overwrite(pending, delta) == -delta

(* an accumulation that forgets to negate the tick *)
Accumulate_not_negated(pending, delta) == pending + delta

(* self._pending_vscroll += (-delta), mouse_hook.py:339, 351 *)
Accumulate(pending, delta) == pending + (-delta)

(* a post for every tick, whether or not one is queued already *)
NeedsPost_always(posted, window) == window

(* not self._vscroll_posted and self._ri_hwnd, mouse_hook.py:340, 350 *)
NeedsPost(posted, window) == ~posted /\ window

(* a return that forwards whatever the path decided *)
FilterReturns_forward(r) ==
    /\ fpc' = "idle"
    /\ ret' = "next"
    /\ f_event' = "none"
    /\ f_raw_data' = 0
    /\ f_should_block' = FALSE
    /\ dispatched' = <<>>
    /\ fired' = <<>>
    /\ raised' = {}

(* the filter returns without dispatching anything *)
FilterReturns(r) ==
    /\ fpc' = "idle"
    /\ ret' = r
    /\ f_event' = "none"
    /\ f_raw_data' = 0
    /\ f_should_block' = FALSE
    /\ dispatched' = <<>>
    /\ fired' = <<>>
    /\ raised' = {}

NothingFlushed == [msg |-> 0, ticks |-> <<>>]

(* first half of the callback: up to the point where _dispatch is called *)
LowLevelHandler(nCode, wParam, mouse_data, flags) ==
    /\ hook
    /\ fpc = "idle"
    /\ f_in' = [nCode |-> nCode, wParam |-> wParam, mouse_data |-> mouse_data,
                flags |-> flags, time |-> 1 - f_in.time]
    /\ LET delta == hiword(mouse_data)
           c     == Classify(wParam, mouse_data)
       IN  IF nCode # HC_ACTION \/ IsInjected(flags)
           THEN /\ FilterReturns("next")
                /\ UNCHANGED <<pending_vscroll, pending_hscroll, vscroll_posted,
                               hscroll_posted, msgq, ticksV, ticksH>>
           ELSE IF wParam = WM_MOUSEWHEEL
           THEN IF invert_vscroll /\ delta # 0
                THEN /\ pending_vscroll' = Accumulate(pending_vscroll, delta)
                     /\ ticksV' = Append(ticksV, delta)
                     /\ IF NeedsPost(vscroll_posted, ri_hwnd)
                        THEN /\ vscroll_posted' = TRUE
                             /\ msgq' = Append(msgq, WM_APP_INJECT_VSCROLL)
                        ELSE UNCHANGED <<vscroll_posted, msgq>>
                     /\ FilterReturns("block")
                     /\ UNCHANGED <<pending_hscroll, hscroll_posted, ticksH>>
                ELSE /\ FilterReturns("next")
                     /\ UNCHANGED <<pending_vscroll, pending_hscroll, vscroll_posted,
                                    hscroll_posted, msgq, ticksV, ticksH>>
           ELSE IF wParam = WM_MOUSEHWHEEL /\ invert_hscroll /\ delta # 0
           THEN /\ pending_hscroll' = Accumulate(pending_hscroll, delta)
                /\ ticksH' = Append(ticksH, delta)
                /\ IF NeedsPost(hscroll_posted, ri_hwnd)
                   THEN /\ hscroll_posted' = TRUE
                        /\ msgq' = Append(msgq, WM_APP_INJECT_HSCROLL)
                   ELSE UNCHANGED <<hscroll_posted, msgq>>
                /\ FilterReturns("block")
                /\ UNCHANGED <<pending_vscroll, vscroll_posted, ticksV>>
           ELSE /\ UNCHANGED <<pending_vscroll, pending_hscroll, vscroll_posted,
                               hscroll_posted, msgq, ticksV, ticksH>>
                /\ IF c.event # "none"
                   THEN /\ fpc' = "dispatch"
                        /\ f_event' = c.event
                        /\ f_raw_data' = c.mag
                        /\ f_should_block' = (c.blocked_by \in blocked_events)
                        /\ ret' = "none"
                        /\ dispatched' = <<>>
                        /\ fired' = <<>>
                        /\ raised' = {}
                   ELSE FilterReturns("next")
    /\ injected' = <<>>
    /\ flushed' = NothingFlushed
    /\ UNCHANGED <<hook, ri_hwnd, callbacks, blocked_events, invert_vscroll,
                   invert_hscroll, gesture_active, prev_raw_buttons>>
    /\ UNCHANGED engineVars
    /\ UNCHANGED <<hidVars, gestVars, callVars>>

(* MouseHook._dispatch, mouse_hook.py:264-270, with the engine's handlers     *)
(* (engine.py:83-94): each calls execute_action(action_id) when _enabled      *)
HandlersFor(event_type) == callbacks[event_type]

Executed(handlers) ==
    IF enabled THEN [i \in 1..Len(handlers) |-> handlers[i].action] ELSE <<>>

(* a dispatch loop without the try/except around the call: the first handler *)
(* that raises ends the loop and the exception leaves _dispatch              *)
RECURSIVE Dispatch_unguarded(_, _, _)
Dispatch_unguarded(handlers, raising, i) ==
    IF i > Len(handlers) THEN [invoked |-> <<>>, propagated |-> FALSE]
    ELSE IF i \in raising THEN [invoked |-> <<handlers[i]>>, propagated |-> TRUE]
    ELSE LET rest == Dispatch_unguarded(handlers, raising, i + 1)
         IN  [invoked |-> <<handlers[i]>> \o rest.invoked, propagated |-> rest.propagated]

(* the loop of _dispatch from handler i on, mouse_hook.py:266-270: cb(event)  *)
(* inside try / except Exception, so a handler that raises is reported and    *)
(* the loop goes on.  raising is the set of positions whose handler raises.   *)
RECURSIVE Dispatch(_, _, _)
Dispatch(handlers, raising, i) ==
    IF i > Len(handlers) THEN [invoked |-> <<>>, propagated |-> FALSE]
    ELSE LET rest == Dispatch(handlers, raising, i + 1)
         IN  [invoked |-> <<handlers[i]>> \o rest.invoked, propagated |-> rest.propagated]

(* second half of the callback, mouse_hook.py:366-371: _dispatch(event), then *)
(* the verdict; an exception that left _dispatch would leave the callback     *)
LowLevelHandlerDispatch ==
    /\ fpc = "dispatch"
    /\ \E raising \in SUBSET (1..Len(HandlersFor(f_event))) :
          LET d == Dispatch(HandlersFor(f_event), raising, 1)
          IN  /\ dispatched' = d.invoked
              /\ fired' = Executed(d.invoked)
              /\ raised' = raising \cap (1..Len(d.invoked))
              /\ ret' = IF d.propagated THEN "raised"
                        ELSE IF f_should_block THEN "block" ELSE "next"
    /\ fpc' = "idle"
    /\ UNCHANGED <<f_event, f_raw_data, f_should_block, f_in>>
    /\ UNCHANGED <<hookVars, scrollObs, engineVars>>
    /\ UNCHANGED <<hidVars, gestVars, callVars>>

----------------------------------------------------------------------------
(* MouseHook._ri_wndproc, mouse_hook.py:398-424: the deferred scroll          *)
(* injection messages, handled on the hook thread outside the filter          *)
ri_wndproc ==
    /\ ri_hwnd
    /\ fpc = "idle"
    /\ msgq # <<>>
    /\ msgq' = Tail(msgq)
    /\ IF Head(msgq) = WM_APP_INJECT_VSCROLL
       THEN /\ pending_vscroll' = 0
            /\ vscroll_posted' = FALSE
            /\ injected' = IF pending_vscroll # 0
                           THEN <<inject_scroll(MOUSEEVENTF_WHEEL, pending_vscroll)>>
                           ELSE <<>>
            /\ ticksV' = <<>>
            /\ flushed' = [msg |-> WM_APP_INJECT_VSCROLL, ticks |-> ticksV]
            /\ UNCHANGED <<pending_hscroll, hscroll_posted, ticksH>>
       ELSE /\ pending_hscroll' = 0
            /\ hscroll_posted' = FALSE
            /\ injected' = IF pending_hscroll # 0
                           THEN <<inject_scroll(MOUSEEVENTF_HWHEEL, pending_hscroll)>>
                           ELSE <<>>
            /\ ticksH' = <<>>
            /\ flushed' = [msg |-> WM_APP_INJECT_HSCROLL, ticks |-> ticksH]
            /\ UNCHANGED <<pending_vscroll, vscroll_posted, ticksV>>
    /\ UNCHANGED <<hook, ri_hwnd, callbacks, blocked_events, invert_vscroll,
                   invert_hscroll, gesture_active, prev_raw_buttons>>
    /\ UNCHANGED <<filterVars, engineVars>>
    /\ UNCHANGED <<hidVars, gestVars, callVars>>

----------------------------------------------------------------------------
(* Engine: profile switching and rewiring, engine.py:99-148.  Each attribute  *)
(* store and each hook.block / hook.register call is one step of the thread   *)
(* that makes it; the filter thread runs between them.                        *)

(* executables the foreground-window poller may report *)
Exes == {VLC_EXE, Notepad_exe}

(* load_config(): what the configuration file holds when it is read *)
DiskConfigs ==
    [active_profile : Profiles, invert_vscroll : BOOLEAN, invert_hscroll : BOOLEAN]

(* a notification that switches without comparing the target with the       *)
(* current profile                                                           *)
on_app_change_always(exe) ==
    /\ epc["poller"] = "idle"
    /\ exe # <<>> /\ exe # last_exe
    /\ last_exe' = exe
    /\ etarget' = get_profile_for_app(CfgProfiles, exe)
    /\ epc' = [epc EXCEPT !["poller"] = "sw_lock"]
    /\ UNCHANGED <<cfg, current_profile, enabled, lock, eops, profile_cb>>
    /\ UNCHANGED <<hookVars, filterVars, scrollObs>>
    /\ UNCHANGED <<hidVars, gestVars, callVars>>

(* AppDetector._poll (app_detector.py:150-159) calling Engine._on_app_change  *)
(* (engine.py:99-105)                                                         *)
on_app_change(exe) ==
    /\ epc["poller"] = "idle"
    /\ exe # <<>> /\ exe # last_exe
    /\ last_exe' = exe
    /\ LET target == get_profile_for_app(CfgProfiles, exe)
       IN  IF target = current_profile
           THEN UNCHANGED <<epc, etarget>>
           ELSE /\ etarget' = target
                /\ epc' = [epc EXCEPT !["poller"] = "sw_lock"]
    /\ UNCHANGED <<cfg, current_profile, enabled, lock, eops, profile_cb>>
    /\ UNCHANGED <<hookVars, filterVars, scrollObs>>
    /\ UNCHANGED <<hidVars, gestVars, callVars>>

(* a _switch_profile that does not wait for the lock *)
switch_lock_unguarded ==
    /\ epc["poller"] = "sw_lock"
    /\ lock' = "poller"
    /\ epc' = [epc EXCEPT !["poller"] = "sw_cfg"]
    /\ UNCHANGED <<cfg, current_profile, enabled, etarget, eops, profile_cb, last_exe>>
    /\ UNCHANGED <<hookVars, filterVars, scrollObs>>
    /\ UNCHANGED <<hidVars, gestVars, callVars>>

(* _switch_profile: with self._lock *)
switch_lock ==
    /\ epc["poller"] = "sw_lock"
    /\ lock = "free"
    /\ lock' = "poller"
    /\ epc' = [epc EXCEPT !["poller"] = "sw_cfg"]
    /\ UNCHANGED <<cfg, current_profile, enabled, etarget, eops, profile_cb, last_exe>>
    /\ UNCHANGED <<hookVars, filterVars, scrollObs>>
    /\ UNCHANGED <<hidVars, gestVars, callVars>>

(* self.cfg["active_profile"] = profile_name *)
switch_set_cfg ==
    /\ epc["poller"] = "sw_cfg"
    /\ cfg' = [cfg EXCEPT !.active_profile = etarget]
    /\ epc' = [epc EXCEPT !["poller"] = "sw_cur"]
    /\ UNCHANGED <<current_profile, enabled, lock, etarget, eops, profile_cb, last_exe>>
    /\ UNCHANGED <<hookVars, filterVars, scrollObs>>
    /\ UNCHANGED <<hidVars, gestVars, callVars>>

(* self._current_profile = profile_name *)
switch_set_current ==
    /\ epc["poller"] = "sw_cur"
    /\ current_profile' = etarget
    /\ epc' = [epc EXCEPT !["poller"] = "reset_cb"]
    /\ UNCHANGED <<cfg, enabled, lock, etarget, eops, profile_cb, last_exe>>
    /\ UNCHANGED <<hookVars, filterVars, scrollObs>>
    /\ UNCHANGED <<hidVars, gestVars, callVars>>

(* reload_mappings: with self._lock: self.cfg = load_config() *)
reload_mappings(disk) ==
    /\ epc["ui"] = "idle"
    /\ lock = "free"
    /\ lock' = "ui"
    /\ cfg' = disk
    /\ epc' = [epc EXCEPT !["ui"] = "rl_cur"]
    /\ UNCHANGED <<current_profile, enabled, etarget, eops, profile_cb, last_exe>>
    /\ UNCHANGED <<hookVars, filterVars, scrollObs>>
    /\ UNCHANGED <<hidVars, gestVars, callVars>>

(* self._current_profile = self.cfg.get("active_profile", "default") *)
reload_set_current ==
    /\ epc["ui"] = "rl_cur"
    /\ current_profile' = cfg.active_profile
    /\ epc' = [epc EXCEPT !["ui"] = "reset_cb"]
    /\ UNCHANGED <<cfg, enabled, lock, etarget, eops, profile_cb, last_exe>>
    /\ UNCHANGED <<hookVars, filterVars, scrollObs>>
    /\ UNCHANGED <<hidVars, gestVars, callVars>>

(* MouseHook.reset_bindings, mouse_hook.py:254-258 *)
reset_callbacks(t) ==
    /\ epc[t] = "reset_cb"
    /\ callbacks' = EmptyCallbacks
    /\ epc' = [epc EXCEPT ![t] = "reset_bl"]
    /\ UNCHANGED <<hook, ri_hwnd, blocked_events, invert_vscroll, invert_hscroll,
                   pending_vscroll, pending_hscroll, vscroll_posted, hscroll_posted,
                   gesture_active, prev_raw_buttons, msgq>>
    /\ UNCHANGED <<cfg, current_profile, enabled, lock, etarget, eops, profile_cb,
                   last_exe>>
    /\ UNCHANGED <<filterVars, scrollObs>>
    /\ UNCHANGED <<hidVars, gestVars, callVars>>

(* a reset that takes the filter and the hidden window down with the table *)
reset_blocked_teardown(t) ==
    /\ epc[t] = "reset_bl"
    /\ blocked_events' = {}
    /\ hook' = FALSE
    /\ ri_hwnd' = FALSE
    /\ epc' = [epc EXCEPT ![t] = "setup"]
    /\ UNCHANGED <<callbacks, invert_vscroll, invert_hscroll,
                   pending_vscroll, pending_hscroll, vscroll_posted, hscroll_posted,
                   gesture_active, prev_raw_buttons, msgq>>
    /\ UNCHANGED <<cfg, current_profile, enabled, lock, etarget, eops, profile_cb,
                   last_exe>>
    /\ UNCHANGED <<filterVars, scrollObs>>
    /\ UNCHANGED <<hidVars, gestVars, callVars>>

reset_blocked(t) ==
    /\ epc[t] = "reset_bl"
    /\ blocked_events' = {}
    /\ epc' = [epc EXCEPT ![t] = "setup"]
    /\ UNCHANGED <<hook, ri_hwnd, callbacks, invert_vscroll, invert_hscroll,
                   pending_vscroll, pending_hscroll, vscroll_posted, hscroll_posted,
                   gesture_active, prev_raw_buttons, msgq>>
    /\ UNCHANGED <<cfg, current_profile, enabled, lock, etarget, eops, profile_cb,
                   last_exe>>
    /\ UNCHANGED <<filterVars, scrollObs>>
    /\ UNCHANGED <<hidVars, gestVars, callVars>>

(* _setup_hooks, engine.py:40-45: read the mappings, apply the inversion flags *)
setup_read(t) ==
    /\ epc[t] = "setup"
    /\ eops' = SetupOps(get_active_mappings(cfg))
    /\ epc' = [epc EXCEPT ![t] = "setup_v"]
    /\ UNCHANGED <<cfg, current_profile, enabled, lock, etarget, profile_cb, last_exe>>
    /\ UNCHANGED <<hookVars, filterVars, scrollObs>>
    /\ UNCHANGED <<hidVars, gestVars, callVars>>

setup_invert_v(t) ==
    /\ epc[t] = "setup_v"
    /\ invert_vscroll' = cfg.invert_vscroll
    /\ epc' = [epc EXCEPT ![t] = "setup_h"]
    /\ UNCHANGED <<hook, ri_hwnd, callbacks, blocked_events, invert_hscroll,
                   pending_vscroll, pending_hscroll, vscroll_posted, hscroll_posted,
                   gesture_active, prev_raw_buttons, msgq>>
    /\ UNCHANGED <<cfg, current_profile, enabled, lock, etarget, eops, profile_cb,
                   last_exe>>
    /\ UNCHANGED <<filterVars, scrollObs>>
    /\ UNCHANGED <<hidVars, gestVars, callVars>>

setup_invert_h(t) ==
    /\ epc[t] = "setup_h"
    /\ invert_hscroll' = cfg.invert_hscroll
    /\ epc' = [epc EXCEPT ![t] = "setup_ops"]
    /\ UNCHANGED <<hook, ri_hwnd, callbacks, blocked_events, invert_vscroll,
                   pending_vscroll, pending_hscroll, vscroll_posted, hscroll_posted,
                   gesture_active, prev_raw_buttons, msgq>>
    /\ UNCHANGED <<cfg, current_profile, enabled, lock, etarget, eops, profile_cb,
                   last_exe>>
    /\ UNCHANGED <<filterVars, scrollObs>>
    /\ UNCHANGED <<hidVars, gestVars, callVars>>

(* _setup_hooks, engine.py:61-81: the next hook.block or hook.register call *)
setup_op(t) ==
    /\ epc[t] = "setup_ops"
    /\ eops # <<>>
    /\ LET table == ApplyOp([callbacks |-> callbacks, blocked |-> blocked_events],
                            Head(eops))
       IN  /\ callbacks' = table.callbacks
           /\ blocked_events' = table.blocked
    /\ eops' = Tail(eops)
    /\ UNCHANGED <<hook, ri_hwnd, invert_vscroll, invert_hscroll,
                   pending_vscroll, pending_hscroll, vscroll_posted, hscroll_posted,
                   gesture_active, prev_raw_buttons, msgq>>
    /\ UNCHANGED <<cfg, current_profile, enabled, lock, epc, etarget, profile_cb,
                   last_exe>>
    /\ UNCHANGED <<filterVars, scrollObs>>
    /\ UNCHANGED <<hidVars, gestVars, callVars>>

(* leaving the with-block; _switch_profile then notifies the UI *)
rewire_unlock(t) ==
    /\ epc[t] = "setup_ops"
    /\ eops = <<>>
    /\ lock' = "free"
    /\ epc' = [epc EXCEPT ![t] = IF t = "poller" THEN "sw_notify" ELSE "idle"]
    /\ UNCHANGED <<cfg, current_profile, enabled, etarget, eops, profile_cb, last_exe>>
    /\ UNCHANGED <<hookVars, filterVars, scrollObs>>
    /\ UNCHANGED <<hidVars, gestVars, callVars>>

switch_notify ==
    /\ epc["poller"] = "sw_notify"
    /\ profile_cb' = etarget
    /\ etarget' = "none"
    /\ epc' = [epc EXCEPT !["poller"] = "idle"]
    /\ UNCHANGED <<cfg, current_profile, enabled, lock, eops, last_exe>>
    /\ UNCHANGED <<hookVars, filterVars, scrollObs>>
    /\ UNCHANGED <<hidVars, gestVars, callVars>>

(* Engine.set_enabled, engine.py:150-151 *)
set_enabled(b) ==
    /\ enabled # b
    /\ enabled' = b
    /\ UNCHANGED <<cfg, current_profile, lock, epc, etarget, eops, profile_cb, last_exe>>
    /\ UNCHANGED <<hookVars, filterVars, scrollObs>>
    /\ UNCHANGED <<hidVars, gestVars, callVars>>

----------------------------------------------------------------------------
(* HID++ gesture listener, hid_gesture.py *)

SHORT_ID       == 16
LONG_ID        == 17
BT_DEV_IDX     == 255
FEAT_REPROG_V4 == 6916
FEAT_ADJ_DPI   == 8705
CID_GESTURE    == 195
MY_SW          == 10
(* the feature index of an HID++ error report, hid_gesture.py:166 *)
HIDPP_ERROR    == 255

(* Python values of the attributes that hold None, a number, a bool or the   *)
(* "read" sentinel                                                           *)
PyNone    == [t |-> "None"]
PyInt(n)  == [t |-> "int", n |-> n]
PyBool(b) == [t |-> "bool", b |-> b]
PyRead    == [t |-> "str", s |-> "read"]

HiByte(n) == (n \div 256) % 256
LoByte(n) == n % 256

(* _parse(raw): None, or (dev_idx, feat_idx, func, sw, params).  Sequences    *)
(* are 1-based here, raw[0] of the code is raw[1].                            *)
NoMsg == [ok |-> FALSE]

parse(raw) ==
    IF Len(raw) < 4 THEN NoMsg
    ELSE LET off == IF raw[1] \in {SHORT_ID, LONG_ID} THEN 1 ELSE 0
         IN  IF off + 3 > Len(raw) THEN NoMsg
             ELSE [ok |-> TRUE, dev |-> raw[off + 1], feat |-> raw[off + 2],
                   func |-> (raw[off + 3] \div 16) % 16, sw |-> raw[off + 3] % 16,
                   params |-> SubSeq(raw, off + 4, Len(raw))]

(* a response is accepted on its feature index alone *)
ResponseMatches_feat_only(msg, feat) == msg.feat = feat

(* r_feat == feat and r_sw == MY_SW, hid_gesture.py:172 *)
ResponseMatches(msg, feat) == msg.feat = feat /\ msg.sw = MY_SW

(* HidGestureListener.__init__, hid_gesture.py:72-83 *)
HgInit ==
    [running |-> FALSE, dev |-> "none", feat_idx |-> PyNone, dpi_idx |-> PyNone,
     dev_idx |-> BT_DEV_IDX, held |-> FALSE, pending_dpi |-> PyNone,
     dpi_result |-> PyNone]

NoReq == [active |-> FALSE, caller |-> "none", dev |-> 0, feat |-> 0, func |-> 0,
          params |-> <<>>]

(* the listener thread before MouseHook.start created it *)
LisOff == [pc |-> "off", idx_left |-> <<>>, req |-> NoReq]

NoDone == [req |-> NoReq, resp |-> NoMsg, raw |-> <<>>, timed_out |-> FALSE,
           resolved |-> FALSE]

(* the device indices _try_connect probes, hid_gesture.py:351 *)
DevIdxOrder == <<BT_DEV_IDX, 1, 2, 3, 4, 5, 6>>

(* _find_feature's reading of the response, hid_gesture.py:183-187 *)
FeatureIndexOf(resp) ==
    IF resp.ok /\ resp.params # <<>> /\ resp.params[1] # 0
    THEN PyInt(resp.params[1]) ELSE PyNone

(* _apply_pending_read_dpi's reading of the response, hid_gesture.py:276-283 *)
DpiOf(resp) ==
    IF resp.ok /\ Len(resp.params) >= 3
    THEN PyInt(resp.params[2] * 256 + resp.params[3]) ELSE PyNone

(* what the caller of _request does with its result, up to its next device    *)
(* call: the new listener object and the listener thread's next position      *)
Returns(who, resp, h) ==
    CASE who = "find_reprog" ->            \* _try_connect, 353-357 
            IF FeatureIndexOf(resp) # PyNone
            THEN [hg |-> [h EXCEPT !.feat_idx = FeatureIndexOf(resp)], pc |-> "find_dpi"]
            ELSE [hg |-> h, pc |-> "find_reprog"]
      [] who = "find_dpi" ->               \* _try_connect, 359-362 
            [hg |-> IF FeatureIndexOf(resp) # PyNone
                    THEN [h EXCEPT !.dpi_idx = FeatureIndexOf(resp)] ELSE h,
             pc |-> "divert"]
      [] who = "divert" ->                 \* _divert 197-201, _try_connect 363-374 
            IF resp.ok
            THEN [hg |-> h, pc |-> "listen"]
            ELSE [hg |-> [h EXCEPT !.dev = "none"], pc |-> "backoff"]
      [] who = "apply_dpi" ->              \* _apply_pending_dpi, 246-254 
            [hg |-> [h EXCEPT !.dpi_result = PyBool(resp.ok), !.pending_dpi = PyNone],
             pc |-> "listen_rx"]
      [] who = "apply_read" ->             \* _apply_pending_read_dpi, 276-284 
            [hg |-> [h EXCEPT !.dpi_result = DpiOf(resp), !.pending_dpi = PyNone],
             pc |-> "listen_rx"]

(* closing the handle discards the reports the host has not read, and the   *)
(* answers to the requests written through it have nowhere to go            *)
Flushed(d) == [d EXCEPT !.inq = <<>>, !.req = NoReq]

Closed(d, h) == IF h.dev = "none" THEN Flushed(d) ELSE d

(* _request up to its first read, hid_gesture.py:151-155: _tx writes the      *)
(* request, or raises (no handle, device gone) and the request fails at once. *)
(* h and l are the listener object and thread as the caller left them.        *)
Request(who, feat, func, params, h, l) ==
    LET r == [active |-> TRUE, caller |-> who, dev |-> h.dev_idx, feat |-> feat,
              func |-> func % 16, params |-> params]
        failed == Returns(who, NoMsg, h)
    IN  IF h.dev = "open"
        THEN /\ hg' = h
             /\ lis' = [l EXCEPT !.pc = "request", !.req = r]
             /\ device' = [device EXCEPT !.req = r]
             /\ hidObs' = [hidObs EXCEPT !.inflight = Append(@, r), !.done = NoDone]
        ELSE /\ hg' = failed.hg
             /\ lis' = [l EXCEPT !.pc = failed.pc, !.req = NoReq]
             /\ device' = Closed(device, failed.hg)
             /\ hidObs' = [hidObs EXCEPT !.done = NoDone]

(* _request returns resp to its caller; d is the device after the last read *)
Resolve(resp, raw, timed_out, d) ==
    LET r == Returns(lis.req.caller, resp, hg)
    IN  /\ hg' = r.hg
        /\ device' = Closed(d, r.hg)
        /\ lis' = [lis EXCEPT !.pc = r.pc, !.req = NoReq]
        /\ hidObs' = [hidObs EXCEPT
                        !.inflight = SelectSeq(@, LAMBDA q : q # lis.req),
                        !.done = [req |-> lis.req, resp |-> resp, raw |-> raw,
                                  timed_out |-> timed_out, resolved |-> TRUE]]

othersHid == <<hookVars, filterVars, scrollObs, engineVars>>

(* _main_loop at `while self._running` and _try_connect up to its first       *)
(* request, hid_gesture.py:378-379, 333-351: enumerate, open the device       *)
main_loop_top ==
    /\ lis.pc = "loop"
    /\ IF ~hg.running
       THEN lis' = [lis EXCEPT !.pc = "done"] /\ UNCHANGED <<hg, device>>
       ELSE IF ~device.present
            THEN lis' = [lis EXCEPT !.pc = "backoff"] /\ UNCHANGED <<hg, device>>
            ELSE \E opened \in BOOLEAN :
                    IF opened
                    THEN /\ hg' = [hg EXCEPT !.dev = "open"]
                         /\ lis' = [lis EXCEPT !.pc = "find_reprog",
                                               !.idx_left = DevIdxOrder]
                         /\ device' = Flushed(device)
                    ELSE /\ lis' = [lis EXCEPT !.pc = "backoff"]
                         /\ UNCHANGED <<hg, device>>
    /\ UNCHANGED <<hidapi_ok, hidObs, caller, gestVars, callVars, othersHid>>

(* _try_connect, hid_gesture.py:351-353 and 367-374: the next device index,   *)
(* or none left: close the handle and give up                                 *)
find_reprog_call ==
    /\ lis.pc = "find_reprog"
    /\ IF lis.idx_left = <<>>
       THEN /\ hg' = [hg EXCEPT !.dev = "none"]
            /\ lis' = [lis EXCEPT !.pc = "backoff"]
            /\ device' = Flushed(device)
            /\ hidObs' = [hidObs EXCEPT !.done = NoDone]
       ELSE Request("find_reprog", 0, 0,
                    <<HiByte(FEAT_REPROG_V4), LoByte(FEAT_REPROG_V4), 0>>,
                    [hg EXCEPT !.dev_idx = Head(lis.idx_left)],
                    [lis EXCEPT !.idx_left = Tail(@)])
    /\ UNCHANGED <<hidapi_ok, caller, gestVars, callVars, othersHid>>

(* _try_connect, hid_gesture.py:359 *)
find_dpi_call ==
    /\ lis.pc = "find_dpi"
    /\ Request("find_dpi", 0, 0, <<HiByte(FEAT_ADJ_DPI), LoByte(FEAT_ADJ_DPI), 0>>,
               hg, lis)
    /\ UNCHANGED <<hidapi_ok, caller, gestVars, callVars, othersHid>>

(* _divert, hid_gesture.py:189-197 *)
divert_call ==
    /\ lis.pc = "divert"
    /\ IF hg.feat_idx = PyNone
       THEN LET r == Returns("divert", NoMsg, hg)
            IN  /\ hg' = r.hg
                /\ lis' = [lis EXCEPT !.pc = r.pc]
                /\ device' = Closed(device, r.hg)
                /\ UNCHANGED hidObs
       ELSE Request("divert", hg.feat_idx.n, 3,
                    <<HiByte(CID_GESTURE), LoByte(CID_GESTURE), 3>>, hg, lis)
    /\ UNCHANGED <<hidapi_ok, caller, gestVars, callVars, othersHid>>

(* one turn of _request's loop before the deadline, hid_gesture.py:156-173 *)
request_rx ==
    /\ lis.pc = "request"
    /\ IF hg.dev # "open" \/ device.inq = <<>>
       THEN UNCHANGED <<hg, lis, device, hidObs>>
       ELSE LET raw  == Head(device.inq)
                d    == [device EXCEPT !.inq = Tail(@)]
                msg  == parse(raw)
            IN  IF ~msg.ok
                THEN device' = d /\ UNCHANGED <<hg, lis, hidObs>>
                ELSE IF msg.feat = HIDPP_ERROR
                THEN Resolve(NoMsg, raw, FALSE, d)
                ELSE IF ResponseMatches(msg, lis.req.feat)
                THEN Resolve(msg, raw, FALSE, d)
                ELSE device' = d /\ UNCHANGED <<hg, lis, hidObs>>
    /\ UNCHANGED <<hidapi_ok, caller, gestVars, callVars, othersHid>>

(* _request's deadline has passed, hid_gesture.py:156, 174 *)
request_timeout ==
    /\ lis.pc = "request"
    /\ Resolve(NoMsg, <<>>, TRUE, device)
    /\ UNCHANGED <<hidapi_ok, caller, gestVars, callVars, othersHid>>

(* the listen loop up to the read, hid_gesture.py:389-395, with               *)
(* _apply_pending_dpi (231-245) and _apply_pending_read_dpi (268-275)         *)
listen_top ==
    /\ lis.pc = "listen"
    /\ IF ~hg.running
       THEN /\ lis' = [lis EXCEPT !.pc = "cleanup"]
            /\ hidObs' = [hidObs EXCEPT !.done = NoDone]
            /\ UNCHANGED <<hg, device>>
       ELSE IF hg.pending_dpi = PyNone
       THEN /\ lis' = [lis EXCEPT !.pc = "listen_rx"]
            /\ hidObs' = [hidObs EXCEPT !.done = NoDone]
            /\ UNCHANGED <<hg, device>>
       ELSE IF hg.dpi_idx = PyNone \/ hg.dev = "none"
       THEN /\ hg' = [hg EXCEPT !.dpi_result = IF hg.pending_dpi = PyRead
                                               THEN PyNone ELSE PyBool(FALSE),
                                !.pending_dpi = PyNone]
            /\ lis' = [lis EXCEPT !.pc = "listen_rx"]
            /\ hidObs' = [hidObs EXCEPT !.done = NoDone]
            /\ UNCHANGED device
       ELSE IF hg.pending_dpi = PyRead
       THEN Request("apply_read", hg.dpi_idx.n, 2, <<0>>, hg, lis)
       ELSE Request("apply_dpi", hg.dpi_idx.n, 3,
                    <<0, HiByte(hg.pending_dpi.n), LoByte(hg.pending_dpi.n)>>, hg, lis)
    /\ UNCHANGED <<hidapi_ok, caller, gestVars, callVars, othersHid>>

(* a decoding that reads on past a zero identifier *)
RECURSIVE CidsFrom_past_terminator(_, _)
CidsFrom_past_terminator(params, i) ==
    IF i + 1 > Len(params) THEN {}
    ELSE {params[i] * 256 + params[i + 1]} \cup CidsFrom_past_terminator(params, i + 2)

(* the control identifiers of a notification, hid_gesture.py:300-307: pairs   *)
(* of bytes, high byte first, up to a zero identifier                         *)
RECURSIVE CidsFrom(_, _)
CidsFrom(params, i) ==
    IF i + 1 > Len(params) THEN {}
    ELSE LET c == params[i] * 256 + params[i + 1]
         IN  IF c = 0 THEN {} ELSE {c} \cup CidsFrom(params, i + 2)

(* a notification handler that does not remember the control is held *)
on_report_forgets_held(raw, h) ==
    LET msg == parse(raw)
    IN  IF ~msg.ok THEN [held |-> h.held, cb |-> "none"]
        ELSE IF PyInt(msg.feat) # h.feat_idx \/ msg.func # 0
        THEN [held |-> h.held, cb |-> "none"]
        ELSE IF CID_GESTURE \in CidsFrom(msg.params, 1) /\ ~h.held
        THEN [held |-> FALSE, cb |-> "down"]
        ELSE [held |-> h.held, cb |-> "none"]

(* _on_report, hid_gesture.py:288-327: the new _held and the callback called  *)
on_report(raw, h) ==
    LET msg == parse(raw)
    IN  IF ~msg.ok THEN [held |-> h.held, cb |-> "none"]
        ELSE IF PyInt(msg.feat) # h.feat_idx \/ msg.func # 0
        THEN [held |-> h.held, cb |-> "none"]
        ELSE LET gesture_now == CID_GESTURE \in CidsFrom(msg.params, 1)
             IN  IF gesture_now /\ ~h.held THEN [held |-> TRUE, cb |-> "down"]
                 ELSE IF ~gesture_now /\ h.held THEN [held |-> FALSE, cb |-> "up"]
                 ELSE [held |-> h.held, cb |-> "none"]

(* the device under test: where it keeps the two features, and its DPI *)
Device == [reprog |-> 9, adj_dpi |-> 10, dpi |-> 1000]

(* a report of the reprogrammable-controls feature with function 0, read off  *)
(* the bytes of the report as the device sent it                              *)
ControlReport(raw) ==
    /\ Len(raw) >= 4
    /\ raw[2] = Device.reprog
    /\ raw[3] \div 16 = 0

(* the read of the listen loop and _on_report, hid_gesture.py:396-398, with   *)
(* the callback up to its test of _gesture_active (mouse_hook.py:597, 603).   *)
(* _rx (138-147) returns None without a handle, on a read that raises and on  *)
(* a read that times out.                                                     *)
listen_rx ==
    /\ lis.pc = "listen_rx"
    /\ IF hg.dev = "none" \/ (hg.dev = "open" /\ device.inq = <<>>)
       THEN /\ lis' = [lis EXCEPT !.pc = "listen"]
            /\ hidObs' = [hidObs EXCEPT !.done = NoDone]
            /\ UNCHANGED <<hg, device>>
       ELSE IF hg.dev = "broken"
       THEN /\ lis' = [lis EXCEPT !.pc = "listen"]
            /\ hidObs' = [hidObs EXCEPT !.rx_failed = TRUE, !.done = NoDone]
            /\ UNCHANGED <<hg, device>>
       ELSE LET raw == Head(device.inq)
                o   == on_report(raw, hg)
            IN  /\ device' = [device EXCEPT !.inq = Tail(@)]
                /\ hg' = [hg EXCEPT !.held = o.held]
                /\ hidObs' = [hidObs EXCEPT
                     !.done = NoDone,
                     !.reportLog = IF ControlReport(raw) THEN Append(@, raw) ELSE @,
                     !.cbLog = IF o.cb = "none" THEN @ ELSE Append(@, o.cb)]
                /\ lis' = [lis EXCEPT !.pc =
                     IF o.cb = "down" /\ ~gesture_active THEN "hid_down"
                     ELSE IF o.cb = "up" /\ gesture_active THEN "hid_up"
                     ELSE "listen"]
    /\ UNCHANGED <<hidapi_ok, caller, gestVars, callVars, othersHid>>

hookRest == <<hook, ri_hwnd, callbacks, blocked_events, invert_vscroll,
              invert_hscroll, pending_vscroll, pending_hscroll, vscroll_posted,
              hscroll_posted, prev_raw_buttons, msgq>>

(* MouseHook._on_hid_gesture_down after its test, mouse_hook.py:598-599 *)
hid_gesture_down ==
    /\ lis.pc = "hid_down"
    /\ gesture_active' = TRUE
    /\ gestureObs' = [gestureObs EXCEPT !.downs = @ + 1]
    /\ lis' = [lis EXCEPT !.pc = "listen"]
    /\ UNCHANGED <<hidapi_ok, hg, device, hidObs, caller, riq, button, callVars>>
    /\ UNCHANGED <<hookRest, filterVars, scrollObs, engineVars>>

(* MouseHook._on_hid_gesture_up after its test, mouse_hook.py:604-605 *)
hid_gesture_up ==
    /\ lis.pc = "hid_up"
    /\ gesture_active' = FALSE
    /\ gestureObs' = [gestureObs EXCEPT !.ups = @ + 1]
    /\ lis' = [lis EXCEPT !.pc = "listen"]
    /\ UNCHANGED <<hidapi_ok, hg, device, hidObs, caller, riq, button, callVars>>
    /\ UNCHANGED <<hookRest, filterVars, scrollObs, engineVars>>

(* the end of a session, hid_gesture.py:402-414: _undivert (203-213), close,  *)
(* clear _dev, _feat_idx and _held, sleep two seconds if still running        *)
cleanup ==
    /\ lis.pc = "cleanup"
    /\ hg' = [hg EXCEPT !.dev = "none", !.feat_idx = PyNone, !.held = FALSE]
    /\ device' = [Flushed(device) EXCEPT
                    !.diverted = IF hg.feat_idx # PyNone /\ hg.dev = "open"
                                 THEN FALSE ELSE @]
    /\ lis' = [lis EXCEPT !.pc = "loop"]
    /\ hidObs' = [hidObs EXCEPT !.reportLog = <<>>, !.cbLog = <<>>,
                                !.rx_failed = FALSE]
    /\ UNCHANGED <<hidapi_ok, caller, gestVars, callVars, othersHid>>

(* the wait after a failed _try_connect, hid_gesture.py:380-385 *)
backoff ==
    /\ lis.pc = "backoff"
    /\ lis' = [lis EXCEPT !.pc = IF hg.running THEN "loop" ELSE "done"]
    /\ hidObs' = [hidObs EXCEPT !.done = NoDone]
    /\ UNCHANGED <<hidapi_ok, hg, device, caller, gestVars, callVars, othersHid>>

(* ---- callers of the DPI interface (any thread but the listener) ---- *)

DpiInputs == {9000}

Max(a, b) == IF a > b THEN a ELSE b
Min(a, b) == IF a < b THEN a ELSE b

(* a set_dpi that talks to the device itself instead of queueing *)
set_dpi_direct(dpi_value) ==
    /\ caller.pc = "idle"
    /\ hg.dev = "open" /\ hg.dpi_idx # PyNone
    /\ hidObs' = [hidObs EXCEPT !.inflight =
                    Append(@, [active |-> TRUE, caller |-> "set_dpi", dev |-> hg.dev_idx,
                               feat |-> hg.dpi_idx.n, func |-> 3,
                               params |-> <<0, HiByte(dpi_value), LoByte(dpi_value)>>])]
    /\ caller' = [pc |-> "set_wait", ret |-> PyNone]
    /\ UNCHANGED <<hidapi_ok, hg, lis, device, gestVars, callVars, othersHid>>

(* set_dpi up to its wait, hid_gesture.py:217-222 *)
set_dpi(dpi_value) ==
    /\ caller.pc = "idle"
    /\ hg' = [hg EXCEPT !.dpi_result = PyNone,
                        !.pending_dpi = PyInt(Max(200, Min(8200, dpi_value)))]
    /\ caller' = [pc |-> "set_wait", ret |-> PyNone]
    /\ UNCHANGED <<hidapi_ok, lis, device, hidObs, gestVars, callVars, othersHid>>

(* Engine.set_dpi on the UI thread (engine.py:128-135) while the startup     *)
(* thread of Engine.start (158-172) is the caller above: the UI thread's     *)
(* HidGestureListener.set_dpi up to its wait, hid_gesture.py:217-222         *)
ui_set_dpi(dpi_value) ==
    /\ hg' = [hg EXCEPT !.dpi_result = PyNone,
                        !.pending_dpi = PyInt(Max(200, Min(8200, dpi_value)))]
    /\ UNCHANGED <<hidapi_ok, lis, device, hidObs, caller, gestVars, callVars,
                   othersHid>>

(* read_dpi up to its wait, hid_gesture.py:256-260 *)
read_dpi ==
    /\ caller.pc = "idle"
    /\ hg' = [hg EXCEPT !.dpi_result = PyNone, !.pending_dpi = PyRead]
    /\ caller' = [pc |-> "read_wait", ret |-> PyNone]
    /\ UNCHANGED <<hidapi_ok, lis, device, hidObs, gestVars, callVars, othersHid>>

(* the caller's poll finds the request taken, hid_gesture.py:225-226, 262-263 *)
dpi_poll ==
    /\ caller.pc \in {"set_wait", "read_wait"}
    /\ hg.pending_dpi = PyNone
    /\ caller' = [pc |-> "idle",
                  ret |-> IF caller.pc = "set_wait"
                          THEN PyBool(hg.dpi_result = PyBool(TRUE))
                          ELSE hg.dpi_result]
    /\ UNCHANGED <<hidapi_ok, hg, lis, device, hidObs, gestVars, callVars, othersHid>>

(* thirty polls found it still pending, hid_gesture.py:228-229, 265-266 *)
dpi_poll_timeout ==
    /\ caller.pc \in {"set_wait", "read_wait"}
    /\ hg.pending_dpi # PyNone
    /\ caller' = [pc |-> "idle",
                  ret |-> IF caller.pc = "set_wait" THEN PyBool(FALSE) ELSE PyNone]
    /\ UNCHANGED <<hidapi_ok, hg, lis, device, hidObs, gestVars, callVars, othersHid>>

----------------------------------------------------------------------------
(* The mouse: the device end of the HID++ channel and the gesture button *)

MaxInq     == 1    \* reports the device has sent and the host has not read
MaxReports == 4    \* control notifications the device sends in one session
MaxPresses == 2    \* presses of the gesture button
MaxRaw     == 2    \* raw-input messages waiting in the hook thread's queue

Connected == device.present /\ hg.dev = "open"

Room == Len(device.inq) < MaxInq

Sent(d, raw) == [d EXCEPT !.inq = Append(@, raw)]

(* the parameters of the device's answer to the request it holds *)
AnswerParams(q, known) ==
    IF q.feat = 0
    THEN LET fid == q.params[1] * 256 + q.params[2]
         IN  <<IF ~known THEN 0
               ELSE IF fid = FEAT_REPROG_V4 THEN Device.reprog
               ELSE IF fid = FEAT_ADJ_DPI THEN Device.adj_dpi ELSE 0, 0, 0, 0>>
    ELSE IF q.feat = Device.adj_dpi /\ q.func = 2
    THEN <<0, HiByte(Device.dpi), LoByte(Device.dpi), 0>>
    ELSE q.params \o <<0>>

(* the device answers the request: the answer echoes feature index, function *)
(* and software id; the Windows backend of hidapi strips the report id       *)
device_respond(known) ==
    /\ Connected /\ Room
    /\ device.req.active
    /\ known \/ device.req.feat = 0
    /\ LET q   == device.req
           raw == <<q.dev, q.feat, q.func * 16 + MY_SW>> \o AnswerParams(q, known)
       IN  device' = [Sent(device, raw) EXCEPT
                        !.req = NoReq,
                        !.diverted = IF q.feat = Device.reprog /\ q.func = 3
                                     THEN q.params[3] % 2 = 1 ELSE @]
    /\ UNCHANGED <<hidapi_ok, hg, lis, hidObs, caller, gestVars, callVars, othersHid>>

(* the device rejects the request with an error report *)
device_error ==
    /\ Connected /\ Room
    /\ device.req.active
    /\ LET q == device.req
       IN  device' = [Sent(device, <<q.dev, HIDPP_ERROR, q.feat, q.func * 16 + MY_SW, 2>>)
                        EXCEPT !.req = NoReq]
    /\ UNCHANGED <<hidapi_ok, hg, lis, hidObs, caller, gestVars, callVars, othersHid>>

(* reports that arrive while the listener waits and answer nothing it asked: *)
(* an answer to another program's request for the same feature, a report of  *)
(* another feature carrying the listener's software id, a truncated report   *)
ForeignKinds == {"tag", "feature", "truncated"}

ForeignReport(kind) ==
    CASE kind = "tag"       -> <<hg.dev_idx, lis.req.feat, lis.req.func * 16 + 1, 1, 0, 0, 0>>
      [] kind = "feature"   -> <<hg.dev_idx, 5, lis.req.func * 16 + MY_SW, 1, 0, 0, 0>>
      [] kind = "truncated" -> <<1, 2>>

device_foreign(kind) ==
    /\ Connected /\ Room
    /\ lis.req.active
    /\ device' = Sent(device, ForeignReport(kind))
    /\ UNCHANGED <<hidapi_ok, hg, lis, hidObs, caller, gestVars, callVars, othersHid>>

(* the device goes away: the open handle is dead from now on *)
device_unplug ==
    /\ device.present
    /\ device' = [device EXCEPT !.present = FALSE, !.diverted = FALSE, !.req = NoReq,
                                !.inq = <<>>]
    /\ hg' = [hg EXCEPT !.dev = IF @ = "open" THEN "broken" ELSE @]
    /\ UNCHANGED <<hidapi_ok, lis, hidObs, caller, gestVars, callVars, othersHid>>

device_replug ==
    /\ ~device.present
    /\ device' = [device EXCEPT !.present = TRUE]
    /\ UNCHANGED <<hidapi_ok, hg, lis, hidObs, caller, gestVars, callVars, othersHid>>

(* the divertedButtonsEvent for the controls held: identifiers high byte     *)
(* first, closed by a zero identifier                                        *)
Notification(b) ==
    <<BT_DEV_IDX, Device.reprog, 0>>
    \o (IF b.other THEN <<0, 82>> ELSE <<>>)
    \o (IF b.gesture THEN <<HiByte(CID_GESTURE), LoByte(CID_GESTURE)>> ELSE <<>>)
    \o (IF b.other /\ b.gesture THEN <<>> ELSE <<0, 0>>)
    \o (IF ~b.other /\ ~b.gesture THEN <<0, 0>> ELSE <<>>)

(* ulRawButtons for the buttons held: bit 0 a standard button, bit 5 the     *)
(* gesture button                                                            *)
RawButtons(b) == (IF b.other THEN 1 ELSE 0) + (IF b.gesture THEN 32 ELSE 0)

NotifsIn(inq) == Cardinality({i \in 1..Len(inq) : ControlReport(inq[i])})

(* the buttons change to b: the mouse reports it on both channels, on the    *)
(* HID++ channel when the control is diverted, as raw input when the hidden  *)
(* window is registered for it                                               *)
Emit(b) ==
    /\ button' = b
    /\ IF device.diverted /\ Connected
       THEN /\ Room
            /\ Len(hidObs.reportLog) + NotifsIn(device.inq) < MaxReports
            /\ device' = Sent(device, Notification(b))
       ELSE UNCHANGED device
    /\ IF ri_hwnd
       THEN /\ Len(riq) < MaxRaw
            /\ riq' = Append(riq, [hDevice |-> "mx", ulRawButtons |-> RawButtons(b)])
       ELSE UNCHANGED riq

button_press ==
    /\ ~button.gesture
    /\ gestureObs.presses < MaxPresses
    /\ Emit([button EXCEPT !.gesture = TRUE])
    /\ gestureObs' = [gestureObs EXCEPT !.presses = @ + 1, !.downs = 0]
    /\ UNCHANGED <<hidapi_ok, hg, lis, hidObs, caller, othersHid, callVars>>

button_release ==
    /\ button.gesture
    /\ Emit([button EXCEPT !.gesture = FALSE])
    /\ gestureObs' = [gestureObs EXCEPT !.ups = 0]
    /\ UNCHANGED <<hidapi_ok, hg, lis, hidObs, caller, othersHid, callVars>>

other_button ==
    /\ Emit([button EXCEPT !.other = ~@])
    /\ UNCHANGED <<hidapi_ok, hg, lis, hidObs, caller, gestureObs, othersHid, callVars>>

----------------------------------------------------------------------------
(* Raw Input on the hook thread, mouse_hook.py:398-471 *)

IsLogitech(hDevice) == hDevice \in {"mx", "mx_usb"}

(* a comparison of the whole button mask, standard buttons included *)
ExtraButtons_unmasked(raw_btns) == raw_btns

(* raw_btns & ~STANDARD_BUTTON_MASK: the mask is 2^5 - 1 *)
ExtraButtons(raw_btns) == raw_btns - (raw_btns % (STANDARD_BUTTON_MASK + 1))

(* _ri_wndproc on WM_INPUT with _process_raw_input and                       *)
(* _check_raw_mouse_gesture up to the test of _gesture_active                *)
process_raw_input ==
    /\ ri_hwnd /\ fpc = "idle" /\ riq # <<>>
    /\ riq' = Tail(riq)
    /\ LET m == Head(riq)
           extra_now  == ExtraButtons(m.ulRawButtons)
           extra_prev == ExtraButtons(prev_raw_buttons[m.hDevice])
       IN  IF ~IsLogitech(m.hDevice)
           THEN UNCHANGED <<prev_raw_buttons, fpc>>
           ELSE /\ prev_raw_buttons' = [prev_raw_buttons EXCEPT ![m.hDevice] = m.ulRawButtons]
                /\ fpc' = IF extra_now # 0 /\ extra_prev = 0 /\ ~gesture_active
                          THEN "ri_down"
                          ELSE IF extra_now = 0 /\ extra_prev # 0 /\ gesture_active
                          THEN "ri_up"
                          ELSE "idle"
    /\ UNCHANGED <<hook, ri_hwnd, callbacks, blocked_events, invert_vscroll,
                   invert_hscroll, pending_vscroll, pending_hscroll, vscroll_posted,
                   hscroll_posted, gesture_active, msgq>>
    /\ UNCHANGED <<f_event, f_raw_data, f_should_block, f_in, ret, dispatched, fired,
                   raised>>
    /\ UNCHANGED <<scrollObs, engineVars, hidVars, button, gestureObs, callVars>>

(* mouse_hook.py:464-466 *)
raw_gesture_down ==
    /\ fpc = "ri_down"
    /\ gesture_active' = TRUE
    /\ gestureObs' = [gestureObs EXCEPT !.downs = @ + 1]
    /\ fpc' = "idle"
    /\ UNCHANGED <<f_event, f_raw_data, f_should_block, f_in, ret, dispatched, fired,
                   raised>>
    /\ UNCHANGED <<hookRest, scrollObs, engineVars, hidVars, riq, button, callVars>>

(* mouse_hook.py:469-471 *)
raw_gesture_up ==
    /\ fpc = "ri_up"
    /\ gesture_active' = FALSE
    /\ gestureObs' = [gestureObs EXCEPT !.ups = @ + 1]
    /\ fpc' = "idle"
    /\ UNCHANGED <<f_event, f_raw_data, f_should_block, f_in, ret, dispatched, fired,
                   raised>>
    /\ UNCHANGED <<hookRest, scrollObs, engineVars, hidVars, riq, button, callVars>>

----------------------------------------------------------------------------
(* Bounds of the model *)
MaxTicks == 3      \* inverted wheel ticks accumulated per axis before a flush

(* the state after Engine.__init__ (engine.py:24-33) read configuration c and *)
(* MouseHook.start installed the filter and created the hidden window         *)
InitEngine(c) ==
    /\ cfg = c
    /\ current_profile = c.active_profile
    /\ enabled = TRUE
    /\ lock = "free"
    /\ epc = [t \in {"poller", "ui"} |-> "idle"]
    /\ etarget = "none"
    /\ eops = <<>>
    /\ profile_cb = "none"
    /\ last_exe = <<>>
    /\ callbacks = FullTable(c.active_profile).callbacks
    /\ blocked_events = FullTable(c.active_profile).blocked
    /\ invert_vscroll = c.invert_vscroll
    /\ invert_hscroll = c.invert_hscroll

RawDevices == {"mx", "mx_usb", "kbd"}

InitHookThreadAt(installed, window) ==
    /\ hook = installed
    /\ ri_hwnd = (installed /\ window)
    /\ pending_vscroll = 0
    /\ pending_hscroll = 0
    /\ vscroll_posted = FALSE
    /\ hscroll_posted = FALSE
    /\ gesture_active = FALSE
    /\ prev_raw_buttons = [h \in RawDevices |-> 0]
    /\ msgq = <<>>
    /\ fpc = "idle"
    /\ f_event = "none"
    /\ f_raw_data = 0
    /\ f_should_block = FALSE
    /\ f_in = [nCode |-> HC_ACTION, wParam |-> WM_MOUSEMOVE, mouse_data |-> MouseData(0),
               flags |-> 0, time |-> 0]
    /\ ret = "next"
    /\ dispatched = <<>>
    /\ fired = <<>>
    /\ raised = {}
    /\ injected = <<>>
    /\ ticksV = <<>>
    /\ ticksH = <<>>
    /\ flushed = NothingFlushed

InitHookThread(window) == InitHookThreadAt(TRUE, window)

InitListener(h, l, d) ==
    /\ hg = h
    /\ lis = l
    /\ device = d
    /\ hidObs = [inflight |-> <<>>, reportLog |-> <<>>, cbLog |-> <<>>, done |-> NoDone,
                 rx_failed |-> FALSE]
    /\ caller = [pc |-> "idle", ret |-> PyNone]
    /\ riq = <<>>
    /\ button = [gesture |-> FALSE, other |-> FALSE]
    /\ gestureObs = [presses |-> 0, downs |-> 0, ups |-> 0]

DeviceInit(present) ==
    [present |-> present, diverted |-> FALSE, req |-> NoReq, inq |-> <<>>]

(* no thread is inside the hook's binding interface, get_profile_for_app or  *)
(* MouseHook.stop                                                            *)
NoStop == [pc |-> "idle", quit |-> FALSE, thread |-> "pump"]

NoLookup == [profiles |-> <<>>, exe |-> <<>>, result |-> "none"]

InitCalls ==
    /\ api = [pc |-> "idle", reset |-> FALSE, log |-> <<>>]
    /\ wired = <<>>
    /\ lookup = NoLookup
    /\ stopper = NoStop

(* hidapi is missing: MouseHook.start creates no listener thread *)
InitNoHid ==
    /\ hidapi_ok = FALSE
    /\ InitListener(HgInit, LisOff, DeviceInit(FALSE))

(* mouse messages the operating system hands to the filter *)
Msg(nCode, wParam, mouse_data, flags) ==
    [nCode |-> nCode, wParam |-> wParam, mouse_data |-> mouse_data, flags |-> flags]

ButtonMessages ==
    {Msg(HC_ACTION, w, MouseData(x), 0) :
        w \in {WM_XBUTTONDOWN, WM_XBUTTONUP}, x \in {XBUTTON1, XBUTTON2}}
    \cup {Msg(HC_ACTION, w, MouseData(0), 0) : w \in {WM_MBUTTONDOWN, WM_MBUTTONUP}}
    \cup {Msg(HC_ACTION, WM_MOUSEHWHEEL, MouseData(d), 0) : d \in {120, -120}}
    \cup {Msg(HC_ACTION, WM_XBUTTONDOWN, MouseData(XBUTTON1), INJECTED_FLAG)}

(* configurations with scroll inversion off *)
PlainConfigs == {c \in DiskConfigs : ~c.invert_vscroll /\ ~c.invert_hscroll}

(* the model stops accumulating at MaxTicks unflushed ticks in all *)
TicksAllowed(m) ==
    (\/ m.wParam = WM_MOUSEWHEEL /\ invert_vscroll
     \/ m.wParam = WM_MOUSEHWHEEL /\ invert_hscroll)
        => Len(ticksV) + Len(ticksH) < MaxTicks

HookInit ==
    /\ InitCalls
    /\ \E c \in PlainConfigs : InitEngine(c)
    /\ InitHookThread(TRUE)
    /\ InitNoHid

FilterButtons ==
    \E m \in ButtonMessages :
        TicksAllowed(m) /\ LowLevelHandler(m.nCode, m.wParam, m.mouse_data, m.flags)

Rewire ==
    \E t \in {"poller", "ui"} :
        \/ reset_callbacks(t)
        \/ reset_blocked(t)
        \/ setup_read(t)
        \/ setup_invert_v(t)
        \/ setup_invert_h(t)
        \/ setup_op(t)
        \/ rewire_unlock(t)

HookNext ==
    \/ FilterButtons
    \/ LowLevelHandlerDispatch
    \/ \E exe \in Exes : on_app_change(exe)
    \/ switch_lock
    \/ switch_set_cfg
    \/ switch_set_current
    \/ \E disk \in PlainConfigs : reload_mappings(disk)
    \/ reload_set_current
    \/ Rewire
    \/ switch_notify
    \/ \E b \in BOOLEAN : set_enabled(b)

SpecHook == HookInit /\ [][HookNext]_vars

----------------------------------------------------------------------------
(* MouseHook.start / _run_hook (mouse_hook.py:551-573, 607-623) and           *)
(* MouseHook.stop with the hook thread's cleanup (584-590, 625-638).  The     *)
(* accumulators and the posted flags belong to the MouseHook object and are   *)
(* touched by neither.                                                        *)
hook_start(hook_ok, window_ok) ==
    /\ ~hook
    /\ fpc = "idle"
    /\ lis.pc \in {"off", "done"}        \* the previous listener thread has exited
    /\ hook' = hook_ok
    /\ ri_hwnd' = (hook_ok /\ window_ok)
    /\ msgq' = <<>>
    /\ riq' = <<>>
    /\ IF hidapi_ok
       THEN /\ hg' = [HgInit EXCEPT !.running = TRUE]
            /\ lis' = [LisOff EXCEPT !.pc = "loop"]
       ELSE UNCHANGED <<hg, lis>>
    /\ UNCHANGED <<callbacks, blocked_events, invert_vscroll, invert_hscroll,
                   pending_vscroll, pending_hscroll, vscroll_posted, hscroll_posted,
                   gesture_active, prev_raw_buttons>>
    /\ UNCHANGED <<filterVars, scrollObs, engineVars>>
    /\ UNCHANGED <<hidapi_ok, caller, device, hidObs, button, gestureObs, callVars>>

(* MouseHook.stop stops the listener first: HidGestureListener.stop,          *)
(* hid_gesture.py:97-105, clears _running and closes the device handle        *)
hook_stop ==
    /\ hook
    /\ fpc = "idle"
    /\ hook' = FALSE
    /\ ri_hwnd' = FALSE
    /\ msgq' = <<>>
    /\ riq' = <<>>
    /\ hg' = [hg EXCEPT !.running = FALSE, !.dev = "none"]
    /\ device' = Flushed(device)
    /\ UNCHANGED <<callbacks, blocked_events, invert_vscroll, invert_hscroll,
                   pending_vscroll, pending_hscroll, vscroll_posted, hscroll_posted,
                   gesture_active, prev_raw_buttons>>
    /\ UNCHANGED <<filterVars, scrollObs, engineVars>>
    /\ UNCHANGED <<hidapi_ok, lis, caller, hidObs, button, gestureObs, callVars>>

(* wheel messages: vertical and horizontal ticks, a zero delta, a synthesized *)
(* tick coming back through the filter                                        *)
VTicks == {3, -5, 1, 2, 120}
HTicks == {120, -120}

WheelMessages ==
    {Msg(HC_ACTION, WM_MOUSEWHEEL, MouseData(d), 0) : d \in VTicks \cup {0}}
    \cup {Msg(HC_ACTION, WM_MOUSEHWHEEL, MouseData(d), 0) : d \in HTicks \cup {0}}
    \cup {Msg(HC_ACTION, WM_MOUSEWHEEL, MouseData(120), INJECTED_FLAG)}

FilterInit ==
    /\ InitCalls
    /\ \E c \in DiskConfigs : c.active_profile = "default" /\ InitEngine(c)
    /\ InitHookThread(TRUE)
    /\ InitNoHid

FilterWheel ==
    \E m \in WheelMessages :
        TicksAllowed(m) /\ LowLevelHandler(m.nCode, m.wParam, m.mouse_data, m.flags)

FilterNext ==
    \/ FilterWheel
    \/ LowLevelHandlerDispatch
    \/ ri_wndproc
    \/ hook_stop
    \/ \E hook_ok, window_ok \in BOOLEAN : hook_start(hook_ok, window_ok)

SpecFilter == FilterInit /\ [][FilterNext]_vars

----------------------------------------------------------------------------
(* The filter fed with synthesized input next to the mouse's own messages *)

(* every button and wheel message as SendInput makes it: LLMHF_INJECTED set *)
InjectedMessages ==
    {Msg(m.nCode, m.wParam, m.mouse_data, INJECTED_FLAG) :
        m \in ButtonMessages \cup WheelMessages}

FilterInjected ==
    \E m \in InjectedMessages :
        LowLevelHandler(m.nCode, m.wParam, m.mouse_data, m.flags)

InjectedNext ==
    \/ FilterInjected
    \/ FilterWheel
    \/ FilterButtons
    \/ LowLevelHandlerDispatch
    \/ ri_wndproc

SpecInjected == FilterInit /\ [][InjectedNext]_vars

----------------------------------------------------------------------------
(* The hook's binding interface called directly, mouse_hook.py:242-258, while *)
(* the filter dispatches                                                      *)

MaxBindings == 2   \* register / block / unblock calls between two resets

(* kinds and handlers the caller binds *)
BindKinds   == {"xbutton1_down"}
BindActions == {"copy", "paste"}

ApiCalled(o) ==
    api' = [api EXCEPT !.log = Append(@, o)]

(* MouseHook.register, mouse_hook.py:242-244 *)
api_register(evt, action_id) ==
    /\ api.pc = "idle" /\ Len(api.log) < MaxBindings
    /\ LET o == [op |-> "register", evt |-> evt, handler |-> Handler(evt, action_id)]
       IN  /\ callbacks' = ApplyOp([callbacks |-> callbacks, blocked |-> blocked_events],
                                   o).callbacks
           /\ ApiCalled(o)
    /\ UNCHANGED <<hook, ri_hwnd, blocked_events, invert_vscroll, invert_hscroll,
                   pending_vscroll, pending_hscroll, vscroll_posted, hscroll_posted,
                   gesture_active, prev_raw_buttons, msgq>>
    /\ UNCHANGED <<filterVars, scrollObs, engineVars, hidVars, gestVars, lookup, stopper, wired>>

(* MouseHook.block, mouse_hook.py:246-248 *)
api_block(evt) ==
    /\ api.pc = "idle" /\ Len(api.log) < MaxBindings
    /\ LET o == [op |-> "block", evt |-> evt, handler |-> NoHandler]
       IN  /\ blocked_events' = ApplyOp([callbacks |-> callbacks, blocked |-> blocked_events],
                                        o).blocked
           /\ ApiCalled(o)
    /\ UNCHANGED <<hook, ri_hwnd, callbacks, invert_vscroll, invert_hscroll,
                   pending_vscroll, pending_hscroll, vscroll_posted, hscroll_posted,
                   gesture_active, prev_raw_buttons, msgq>>
    /\ UNCHANGED <<filterVars, scrollObs, engineVars, hidVars, gestVars, lookup, stopper, wired>>

(* MouseHook.unblock, mouse_hook.py:250-252: set.discard *)
api_unblock(evt) ==
    /\ api.pc = "idle" /\ Len(api.log) < MaxBindings
    /\ blocked_events' = blocked_events \ {evt}
    /\ ApiCalled([op |-> "unblock", evt |-> evt, handler |-> NoHandler])
    /\ UNCHANGED <<hook, ri_hwnd, callbacks, invert_vscroll, invert_hscroll,
                   pending_vscroll, pending_hscroll, vscroll_posted, hscroll_posted,
                   gesture_active, prev_raw_buttons, msgq>>
    /\ UNCHANGED <<filterVars, scrollObs, engineVars, hidVars, gestVars, lookup, stopper, wired>>

(* MouseHook.reset_bindings, mouse_hook.py:257: self._callbacks.clear() *)
api_reset_callbacks ==
    /\ api.pc = "idle"
    /\ callbacks' = EmptyCallbacks
    /\ api' = [pc |-> "reset_bl", reset |-> TRUE, log |-> <<>>]
    /\ UNCHANGED <<hook, ri_hwnd, blocked_events, invert_vscroll, invert_hscroll,
                   pending_vscroll, pending_hscroll, vscroll_posted, hscroll_posted,
                   gesture_active, prev_raw_buttons, msgq>>
    /\ UNCHANGED <<filterVars, scrollObs, engineVars, hidVars, gestVars, lookup, stopper, wired>>

(* MouseHook.reset_bindings, mouse_hook.py:258: self._blocked_events.clear() *)
api_reset_blocked ==
    /\ api.pc = "reset_bl"
    /\ blocked_events' = {}
    /\ api' = [api EXCEPT !.pc = "idle"]
    /\ UNCHANGED <<hook, ri_hwnd, callbacks, invert_vscroll, invert_hscroll,
                   pending_vscroll, pending_hscroll, vscroll_posted, hscroll_posted,
                   gesture_active, prev_raw_buttons, msgq>>
    /\ UNCHANGED <<filterVars, scrollObs, engineVars, hidVars, gestVars, lookup, stopper, wired>>

(* the side-button messages handed to the filter meanwhile *)
BindMessages ==
    {Msg(HC_ACTION, w, MouseData(XBUTTON1), 0) : w \in {WM_XBUTTONDOWN, WM_XBUTTONUP}}

FilterBound ==
    \E m \in BindMessages : LowLevelHandler(m.nCode, m.wParam, m.mouse_data, m.flags)

(* the table Engine.__init__ left for the default profile is bound already *)
BindingsInit ==
    /\ InitCalls
    /\ \E c \in PlainConfigs : c.active_profile = "default" /\ InitEngine(c)
    /\ InitHookThread(TRUE)
    /\ InitNoHid

BindingsNext ==
    \/ \E evt \in BindKinds, a \in BindActions : api_register(evt, a)
    \/ \E evt \in BindKinds : api_block(evt)
    \/ \E evt \in BindKinds : api_unblock(evt)
    \/ api_reset_callbacks
    \/ api_reset_blocked
    \/ FilterBound
    \/ LowLevelHandlerDispatch

SpecBindings == BindingsInit /\ [][BindingsNext]_vars

----------------------------------------------------------------------------
(* get_profile_for_app on configurations and executable names drawn from     *)
(* small sets                                                                *)

(* characters of the names: "A", "a", "b" *)
NameChars == {65, 97, 98}

(* names of one or two characters *)
LookupNames ==
    {<<c>> : c \in NameChars} \cup {<<c, d>> : c \in NameChars, d \in NameChars}

(* apps lists: create_profile gives a profile the executable it is made for, *)
(* the configuration file may list more                                      *)
AppLists ==
    {<<>>} \cup {<<a>> : a \in LookupNames}
           \cup {<<a, b>> : a \in LookupNames, b \in LookupNames}

(* cfg["profiles"]: the default profile (no apps) and two per-application   *)
(* profiles, in the order of the dict                                        *)
LookupConfigs ==
    {<< [name |-> "default", apps |-> <<>>],
        [name |-> "p1", apps |-> a1],
        [name |-> "p2", apps |-> a2] >> :
        a1 \in AppLists, a2 \in {l \in AppLists : Len(l) <= 1}}

LookupInit ==
    /\ \E c \in PlainConfigs : c.active_profile = "default" /\ InitEngine(c)
    /\ InitHookThread(TRUE)
    /\ InitNoHid
    /\ api = [pc |-> "idle", reset |-> FALSE, log |-> <<>>]
    /\ wired = <<>>
    /\ stopper = NoStop
    /\ \E profiles \in LookupConfigs :
          lookup = [profiles |-> profiles, exe |-> <<>>, result |-> "none"]

(* get_profile_for_app(cfg, exe_name), config.py:161-166 *)
lookup_call(exe_name) ==
    /\ lookup' = [lookup EXCEPT !.exe = exe_name,
                                !.result = get_profile_for_app(lookup.profiles, exe_name)]
    /\ UNCHANGED <<hookVars, filterVars, scrollObs, engineVars, hidVars, gestVars,
                   api, stopper, wired>>

LookupNext == \E exe_name \in LookupNames \cup {<<>>} : lookup_call(exe_name)

SpecLookup == LookupInit /\ [][LookupNext]_vars

----------------------------------------------------------------------------
(* The listener from its start: connection, requests, DPI, reconnection *)

(* MouseHook.start has started the listener; the hidden window was refused *)
HidInit ==
    /\ InitCalls
    /\ \E c \in PlainConfigs : c.active_profile = "default" /\ InitEngine(c)
    /\ InitHookThread(FALSE)
    /\ hidapi_ok = TRUE
    /\ \E present \in BOOLEAN :
          InitListener([HgInit EXCEPT !.running = TRUE], [LisOff EXCEPT !.pc = "loop"],
                       DeviceInit(present))

HidNext ==
    \/ main_loop_top
    \/ find_reprog_call
    \/ find_dpi_call
    \/ divert_call
    \/ request_rx
    \/ request_timeout
    \/ listen_top
    \/ listen_rx
    \/ cleanup
    \/ backoff
    \/ \E dpi_value \in DpiInputs : set_dpi(dpi_value)
    \/ read_dpi
    \/ dpi_poll
    \/ dpi_poll_timeout
    \/ \E known \in BOOLEAN : device_respond(known)
    \/ device_error
    \/ \E kind \in ForeignKinds : device_foreign(kind)
    \/ device_unplug
    \/ device_replug
    \/ hook_stop

SpecHid == HidInit /\ [][HidNext]_vars

(* the listener thread is scheduled as long as it has a step to take; nothing *)
(* is assumed of the device, the callers and MouseHook.stop                   *)
ListenerStep ==
    \/ main_loop_top
    \/ find_reprog_call
    \/ find_dpi_call
    \/ divert_call
    \/ request_rx
    \/ request_timeout
    \/ listen_top
    \/ listen_rx
    \/ cleanup
    \/ backoff

SpecHidLive == SpecHid /\ WF_vars(ListenerStep)

----------------------------------------------------------------------------
(* MouseHook.stop step by step, mouse_hook.py:625-638, with                  *)
(* HidGestureListener.stop, hid_gesture.py:97-107, while both threads run    *)

(* a join that waits for the thread however long it takes *)
join_forever(thread_alive) == ~thread_alive

(* Thread.join(timeout=...): it returns when the thread has ended or the     *)
(* timeout has elapsed, whichever comes first                                *)
join_timeout(thread_alive) == TRUE

ListenerAlive == lis.pc \notin {"off", "done"}

(* the hook thread started, installed the filter or failed to               *)
(* (mouse_hook.py:558-566), and the listener thread was started             *)
StopInit ==
    /\ api = [pc |-> "idle", reset |-> FALSE, log |-> <<>>]
    /\ wired = <<>>
    /\ lookup = NoLookup
    /\ \E c \in PlainConfigs : c.active_profile = "default" /\ InitEngine(c)
    /\ \E installed \in BOOLEAN :
          /\ InitHookThreadAt(installed, FALSE)
          /\ stopper = [NoStop EXCEPT !.thread = IF installed THEN "pump" ELSE "ended"]
    /\ riq = <<>>
    /\ button = [gesture |-> FALSE, other |-> FALSE]
    /\ gestureObs = [presses |-> 0, downs |-> 0, ups |-> 0]
    /\ \E lib \in BOOLEAN :
          /\ hidapi_ok = lib
          /\ IF lib
             THEN \E present \in BOOLEAN :
                     InitListener([HgInit EXCEPT !.running = TRUE],
                                  [LisOff EXCEPT !.pc = "loop"], DeviceInit(present))
             ELSE InitListener(HgInit, LisOff, DeviceInit(FALSE))

(* self._running = False; if self._hid_gesture: ..., mouse_hook.py:627-629 *)
stop_call ==
    /\ stopper.pc = "idle"
    /\ stopper' = [stopper EXCEPT !.pc = IF hidapi_ok THEN "hid_stop" ELSE "post"]
    /\ UNCHANGED <<hookVars, filterVars, scrollObs, engineVars, hidVars, gestVars,
                   api, lookup, wired>>

(* HidGestureListener.stop up to its join, hid_gesture.py:98-105 *)
hid_stop ==
    /\ stopper.pc = "hid_stop"
    /\ hg' = [hg EXCEPT !.running = FALSE, !.dev = "none"]
    /\ device' = Flushed(device)
    /\ stopper' = [stopper EXCEPT !.pc = "hid_join"]
    /\ UNCHANGED <<hookVars, filterVars, scrollObs, engineVars, hidapi_ok, lis,
                   caller, hidObs, gestVars, api, lookup, wired>>

(* self._thread.join(timeout=3), hid_gesture.py:106-107 *)
hid_join ==
    /\ stopper.pc = "hid_join"
    /\ join_timeout(ListenerAlive)
    /\ stopper' = [stopper EXCEPT !.pc = "post"]
    /\ UNCHANGED <<hookVars, filterVars, scrollObs, engineVars, hidVars, gestVars,
                   api, lookup, wired>>

(* PostThreadMessageW(self._thread_id, WM_QUIT, 0, 0), mouse_hook.py:632-633: *)
(* the message is queued when the thread still has a queue                    *)
stop_post ==
    /\ stopper.pc = "post"
    /\ stopper' = [stopper EXCEPT !.pc = "join", !.quit = (stopper.thread = "pump")]
    /\ UNCHANGED <<hookVars, filterVars, scrollObs, engineVars, hidVars, gestVars,
                   api, lookup, wired>>

(* GetMessageW returns 0 on WM_QUIT: the loop ends, the window is destroyed  *)
(* and the filter removed, mouse_hook.py:578-590                             *)
run_hook_quit ==
    /\ stopper.quit /\ stopper.thread = "pump"
    /\ fpc = "idle"
    /\ hook' = FALSE
    /\ ri_hwnd' = FALSE
    /\ msgq' = <<>>
    /\ riq' = <<>>
    /\ stopper' = [stopper EXCEPT !.quit = FALSE, !.thread = "ended"]
    /\ UNCHANGED <<callbacks, blocked_events, invert_vscroll, invert_hscroll,
                   pending_vscroll, pending_hscroll, vscroll_posted, hscroll_posted,
                   gesture_active, prev_raw_buttons>>
    /\ UNCHANGED <<filterVars, scrollObs, engineVars, hidVars, button, gestureObs,
                   api, lookup, wired>>

(* self._hook_thread.join(timeout=2) and the three stores after it,          *)
(* mouse_hook.py:634-638                                                     *)
stop_join ==
    /\ stopper.pc = "join"
    /\ join_timeout(stopper.thread = "pump")
    /\ hook' = FALSE
    /\ ri_hwnd' = FALSE
    /\ stopper' = [stopper EXCEPT !.pc = "returned"]
    /\ UNCHANGED <<callbacks, blocked_events, invert_vscroll, invert_hscroll,
                   pending_vscroll, pending_hscroll, vscroll_posted, hscroll_posted,
                   gesture_active, prev_raw_buttons, msgq>>
    /\ UNCHANGED <<filterVars, scrollObs, engineVars, hidVars, gestVars, api, lookup, wired>>

(* a side button is pressed while the filter is installed *)
FilterPress ==
    LowLevelHandler(HC_ACTION, WM_XBUTTONDOWN, MouseData(XBUTTON1), 0)

StopStep ==
    \/ hid_stop
    \/ hid_join
    \/ stop_post
    \/ stop_join

StopNext ==
    \/ stop_call
    \/ StopStep
    \/ run_hook_quit
    \/ FilterPress
    \/ LowLevelHandlerDispatch
    \/ ListenerStep
    \/ device_respond(TRUE)

(* the thread that called stop is scheduled; nothing is assumed of the hook  *)
(* thread, the listener thread or the device                                 *)
SpecStop == StopInit /\ [][StopNext]_vars /\ WF_vars(StopStep)

----------------------------------------------------------------------------
(* The gesture button seen on both channels: a session is established, the  *)
(* control is diverted and the hidden window receives raw input             *)

GestureInit ==
    /\ InitCalls
    /\ \E c \in PlainConfigs : c.active_profile = "default" /\ InitEngine(c)
    /\ InitHookThread(TRUE)
    /\ hidapi_ok = TRUE
    /\ InitListener([HgInit EXCEPT !.running = TRUE, !.dev = "open",
                                   !.feat_idx = PyInt(Device.reprog),
                                   !.dpi_idx = PyInt(Device.adj_dpi)],
                    [LisOff EXCEPT !.pc = "listen"],
                    [DeviceInit(TRUE) EXCEPT !.diverted = TRUE])

GestureNext ==
    \/ button_press
    \/ button_release
    \/ other_button
    \/ listen_top
    \/ listen_rx
    \/ hid_gesture_down
    \/ hid_gesture_up
    \/ process_raw_input
    \/ raw_gesture_down
    \/ raw_gesture_up

SpecGesture == GestureInit /\ [][GestureNext]_vars

(* Raw input alone: reports of two handles of the vendor's and of another    *)
(* vendor's device, with standard and extended button bits                   *)
RawMasks == {0, 1, 32, 33, 64}

(* WM_INPUT is queued for the hidden window; the observer starts counting    *)
(* the events dispatched since this report                                   *)
raw_report(hDevice, raw_btns) ==
    /\ ri_hwnd
    /\ Len(riq) < MaxRaw
    /\ riq' = Append(riq, [hDevice |-> hDevice, ulRawButtons |-> raw_btns])
    /\ gestureObs' = [gestureObs EXCEPT !.downs = 0, !.ups = 0]
    /\ UNCHANGED <<hookVars, filterVars, scrollObs, engineVars, hidVars, button,
                   callVars>>

RawNext ==
    \/ \E h \in RawDevices, b \in RawMasks : raw_report(h, b)
    \/ process_raw_input
    \/ raw_gesture_down
    \/ raw_gesture_up

SpecRaw == HookInit /\ [][RawNext]_vars

(* Reports the listener reads in a session, hid_gesture.py:45-64, 288-309:   *)
(* notifications of the controls feature with the gesture control first,     *)
(* after another control, after the terminator, absent, and split across two *)
(* identifiers; the same parameters under another feature index, under       *)
(* function 1 and behind a report id; a report too short to parse.           *)
ReportSamples ==
    LET gesture == <<HiByte(CID_GESTURE), LoByte(CID_GESTURE)>>
        reprog  == <<BT_DEV_IDX, Device.reprog, 0>>
    IN  { reprog \o gesture \o <<0, 0>>,
          reprog \o <<0, 82>> \o gesture \o <<0, 0>>,
          reprog \o <<0, 0>> \o gesture,
          reprog \o <<0, 0, 0, 0>>,
          reprog \o <<LoByte(CID_GESTURE), 0, 0>>,
          <<BT_DEV_IDX, Device.adj_dpi, 0>> \o gesture \o <<0, 0>>,
          <<BT_DEV_IDX, Device.reprog, 16>> \o gesture \o <<0, 0>>,
          <<LONG_ID>> \o reprog \o gesture \o <<0, 0>>,
          <<BT_DEV_IDX, Device.reprog, 0>> }

(* the device sends a report *)
device_report(raw) ==
    /\ Connected
    /\ Room
    /\ ControlReport(raw) =>
          Len(hidObs.reportLog) + NotifsIn(device.inq) < MaxReports
    /\ device' = Sent(device, raw)
    /\ UNCHANGED <<hidapi_ok, hg, lis, hidObs, caller, gestVars, callVars, othersHid>>

ReportNext ==
    \/ \E raw \in ReportSamples : device_report(raw)
    \/ listen_top
    \/ listen_rx
    \/ hid_gesture_down
    \/ hid_gesture_up

SpecReport == GestureInit /\ [][ReportNext]_vars

----------------------------------------------------------------------------
(* A rewiring for any mapping, in one piece: reset_bindings followed by      *)
(* _setup_hooks, engine.py:144-148 and 38-81, with middle-button messages    *)
(* going through the filter                                                  *)

ButtonKeys   == <<"middle", "gesture", "xbutton1", "xbutton2", "hscroll_left",
                  "hscroll_right">>

(* the actions tried for a key: pass-through and one action, a different one *)
(* for the middle button than for the gesture control                        *)
SetupActions(key) ==
    IF key \in {"middle", "xbutton1", "hscroll_left"}
    THEN {"none", "copy"} ELSE {"none", "paste"}

(* the mappings of a profile: every button key, in DEFAULT_CONFIG's order,   *)
(* with an action identifier                                                 *)
SetupMappings ==
    {[i \in 1..Len(ButtonKeys) |-> <<ButtonKeys[i], a[i]>>] :
        a \in {f \in [1..Len(ButtonKeys) -> {"none", "copy", "paste"}] :
                  \A i \in 1..Len(ButtonKeys) : f[i] \in SetupActions(ButtonKeys[i])}}

rewire_for(mappings) ==
    /\ fpc = "idle"
    /\ mappings # wired
    /\ LET table == ApplyOps([callbacks |-> EmptyCallbacks, blocked |-> {}],
                             SetupOps(mappings))
       IN  /\ callbacks' = table.callbacks
           /\ blocked_events' = table.blocked
    /\ wired' = mappings
    /\ UNCHANGED <<hook, ri_hwnd, invert_vscroll, invert_hscroll,
                   pending_vscroll, pending_hscroll, vscroll_posted, hscroll_posted,
                   gesture_active, prev_raw_buttons, msgq>>
    /\ UNCHANGED <<filterVars, scrollObs, engineVars, hidVars, gestVars, api, lookup,
                   stopper>>

MiddleMessages ==
    {Msg(HC_ACTION, w, MouseData(0), 0) : w \in {WM_MBUTTONDOWN, WM_MBUTTONUP}}

FilterMiddle ==
    \E m \in MiddleMessages : LowLevelHandler(m.nCode, m.wParam, m.mouse_data, m.flags)

SetupNext ==
    \/ \E mappings \in SetupMappings : rewire_for(mappings)
    \/ FilterMiddle
    \/ LowLevelHandlerDispatch

SpecSetup == HookInit /\ [][SetupNext]_vars

(* Rewiring and middle clicks while the listener holds an open session with  *)
(* the gesture control diverted (engine.py:38-81, mouse_hook.py:326-332,     *)
(* hid_gesture.py:288-309)                                                   *)
FallbackMappings ==
    {m \in SetupMappings :
        \A key \in {"xbutton1", "xbutton2", "hscroll_left", "hscroll_right"} :
            MappingGet(m, key) = "none"}

FallbackNext ==
    \/ \E mappings \in FallbackMappings : rewire_for(mappings)
    \/ FilterMiddle
    \/ LowLevelHandlerDispatch
    \/ button_press
    \/ button_release
    \/ listen_top
    \/ listen_rx
    \/ hid_gesture_down
    \/ hid_gesture_up

SpecFallback == GestureInit /\ [][FallbackNext]_vars

(* The gesture control over sessions that end and start again: the listener  *)
(* leaves its Listen loop only when MouseHook.stop cleared _running          *)
(* (hid_gesture.py:389-411), and MouseHook.start makes a new listener        *)
(* (mouse_hook.py:607-618) while the hook object keeps _gesture_active.  The *)
(* control is reported on the protocol channel only: no hidden window.       *)
ReconnectInit ==
    /\ InitCalls
    /\ \E c \in PlainConfigs : c.active_profile = "default" /\ InitEngine(c)
    /\ InitHookThread(FALSE)
    /\ hidapi_ok = TRUE
    /\ InitListener([HgInit EXCEPT !.running = TRUE], [LisOff EXCEPT !.pc = "loop"],
                    DeviceInit(TRUE))

ReconnectNext ==
    \/ button_press
    \/ button_release
    \/ ListenerStep
    \/ hid_gesture_down
    \/ hid_gesture_up
    \/ device_respond(TRUE)
    \/ hook_stop
    \/ hook_start(TRUE, FALSE)

SpecReconnect == ReconnectInit /\ [][ReconnectNext]_vars

(* The gesture button pressed and released while DPI requests go through    *)
(* the session (hid_gesture.py:149-174, 217-284, 389-398)                    *)
BusyNext ==
    \/ button_press
    \/ button_release
    \/ listen_top
    \/ listen_rx
    \/ hid_gesture_down
    \/ hid_gesture_up
    \/ request_rx
    \/ request_timeout
    \/ \E dpi_value \in DpiInputs : set_dpi(dpi_value)
    \/ read_dpi
    \/ dpi_poll
    \/ dpi_poll_timeout
    \/ \E dpi_value \in DpiInputs : ui_set_dpi(dpi_value)
    \/ device_respond(TRUE)

SpecBusy == GestureInit /\ [][BusyNext]_vars

----------------------------------------------------------------------------
(* The two rewiring threads alone: the poller's profile switches, the UI's   *)
(* reloads, and the UI storing its own configuration in the engine           *)

(* self._engine.cfg = self._cfg, backend.py:207-208, 217-218: the UI thread  *)
(* replaces the engine's configuration without taking the lock               *)
backend_store_cfg(ui_cfg) ==
    /\ epc["ui"] = "idle"
    /\ cfg # ui_cfg
    /\ cfg' = ui_cfg
    /\ UNCHANGED <<current_profile, enabled, lock, epc, etarget, eops, profile_cb,
                   last_exe>>
    /\ UNCHANGED <<hookVars, filterVars, scrollObs>>
    /\ UNCHANGED <<hidVars, gestVars, callVars>>

RewireNext ==
    \/ \E exe \in Exes : on_app_change(exe)
    \/ switch_lock
    \/ switch_set_cfg
    \/ switch_set_current
    \/ \E disk \in DiskConfigs : reload_mappings(disk)
    \/ reload_set_current
    \/ Rewire
    \/ switch_notify
    \/ \E ui_cfg \in DiskConfigs : backend_store_cfg(ui_cfg)

SpecRewire == HookInit /\ [][RewireNext]_vars

----------------------------------------------------------------------------
(* Profile switches while a session with the mouse is established and the   *)
(* gesture button is in use                                                  *)

SwitchRewire ==
    \/ reset_callbacks("poller")
    \/ reset_blocked("poller")
    \/ setup_read("poller")
    \/ setup_invert_v("poller")
    \/ setup_invert_h("poller")
    \/ setup_op("poller")
    \/ rewire_unlock("poller")

SwitchNext ==
    \/ \E exe \in Exes : on_app_change(exe)
    \/ switch_lock
    \/ switch_set_cfg
    \/ switch_set_current
    \/ SwitchRewire
    \/ switch_notify
    \/ button_press
    \/ button_release
    \/ listen_top
    \/ listen_rx
    \/ hid_gesture_down
    \/ hid_gesture_up

SpecSwitch == GestureInit /\ [][SwitchNext]_vars

----------------------------------------------------------------------------
(* Claims about the filter and the binding table, checked under SpecHook *)

(* the symbolic kind of a message, as the specification words it *)
SymbolicKind(m) ==
    CASE m.wParam = WM_XBUTTONDOWN /\ hiword(m.mouse_data) = 1 -> "xbutton1_down"
      [] m.wParam = WM_XBUTTONDOWN /\ hiword(m.mouse_data) = 2 -> "xbutton2_down"
      [] m.wParam = WM_XBUTTONUP /\ hiword(m.mouse_data) = 1   -> "xbutton1_up"
      [] m.wParam = WM_XBUTTONUP /\ hiword(m.mouse_data) = 2   -> "xbutton2_up"
      [] m.wParam = WM_MBUTTONDOWN                             -> "middle_down"
      [] m.wParam = WM_MBUTTONUP                               -> "middle_up"
      [] m.wParam = WM_MOUSEHWHEEL /\ ~invert_hscroll /\ hiword(m.mouse_data) > 0
                                                               -> "hscroll_left"
      [] m.wParam = WM_MOUSEHWHEEL /\ ~invert_hscroll /\ hiword(m.mouse_data) < 0
                                                               -> "hscroll_right"
      [] OTHER                                                 -> "none"

FilterEnters  == fpc = "idle" /\ fpc' = "dispatch"
FilterReturnsFromDispatch == fpc = "dispatch" /\ fpc' = "idle"

(* C1: a non-injected message that classifies to a symbolic kind is handed to *)
(* _dispatch under that kind; _dispatch invokes every handler registered for  *)
(* the kind, in order; and the call returns "block" (the original event is    *)
(* not forwarded) exactly when the kind was in the blocked set when the       *)
(* message was classified, and forwards it otherwise.                         *)
C1_DispatchThenVerdict ==
    [][ /\ FilterEnters =>
              /\ f_in'.nCode = HC_ACTION /\ ~IsInjected(f_in'.flags)
              /\ f_event' = SymbolicKind(f_in')
              /\ f_should_block' = (f_event' \in blocked_events)
        /\ (fpc = "idle" /\ fpc' = "idle" /\ f_in' # f_in
              /\ f_in'.nCode = HC_ACTION /\ ~IsInjected(f_in'.flags)) =>
              SymbolicKind(f_in') = "none"
        /\ FilterReturnsFromDispatch =>
              /\ dispatched' = callbacks[f_event]
              /\ ret' = IF f_should_block THEN "block" ELSE "next" ]_vars

C1_Witness ==
    /\ fpc = "idle"
    /\ f_event = "xbutton2_up"
    /\ ret = "block"
    /\ current_profile = "media"

(* C2 as claimed, for a side button that every configured profile maps to an  *)
(* action (so that it is mapped whichever profile is active): with the engine *)
(* enabled, the down edge executes exactly one action, one the configuration  *)
(* gives that button, the up edge executes none, and both are suppressed.     *)
SideButtonOf(kind) ==
    IF kind \in {"xbutton1_down", "xbutton1_up"} THEN "xbutton1" ELSE "xbutton2"

MappedEverywhere(btn) ==
    \A p \in Profiles : MappingGet(ProfileMappings(p), btn) # "none"

C2_OneActionPerPair ==
    [][ (/\ FilterReturnsFromDispatch
         /\ enabled
         /\ f_event \in {"xbutton1_down", "xbutton1_up", "xbutton2_down", "xbutton2_up"}
         /\ MappedEverywhere(SideButtonOf(f_event))) =>
            /\ ret' = "block"
            /\ IF f_event \in {"xbutton1_down", "xbutton2_down"}
               THEN /\ Len(fired') = 1
                    /\ \E p \in Profiles :
                          fired'[1] = MappingGet(ProfileMappings(p), SideButtonOf(f_event))
               ELSE fired' = <<>> ]_vars

(* C3 as claimed: what one filter call observes of the binding table (the     *)
(* blocked flag it read and the handlers it dispatched) is what the complete  *)
(* table of some profile holds for that kind.                                 *)
C3_TableSeenWhole ==
    [][ FilterReturnsFromDispatch =>
            \E p \in Profiles :
                /\ f_should_block = (f_event \in FullTable(p).blocked)
                /\ dispatched' = FullTable(p).callbacks[f_event] ]_vars

----------------------------------------------------------------------------
(* Claims about scroll inversion, checked under SpecFilter *)

RECURSIVE NegatedSum(_)
NegatedSum(ticks) ==
    IF ticks = <<>> THEN 0 ELSE (-Head(ticks)) + NegatedSum(Tail(ticks))

Posted(msg) == Cardinality({i \in 1..Len(msgq) : msgq[i] = msg})

WheelFlagOf(msg) ==
    IF msg = WM_APP_INJECT_VSCROLL THEN MOUSEEVENTF_WHEEL ELSE MOUSEEVENTF_HWHEEL

JustFlushed == flushed.msg # 0

PendingOf(msg) ==
    IF msg = WM_APP_INJECT_VSCROLL THEN pending_vscroll ELSE pending_hscroll

PostedFlagOf(msg) ==
    IF msg = WM_APP_INJECT_VSCROLL THEN vscroll_posted ELSE hscroll_posted

(* one synthesized wheel event of the flushed axis carrying delta d *)
OneInjected(msg, d) ==
    /\ Len(injected) = 1
    /\ injected[1].dwFlags = WheelFlagOf(msg)
    /\ SignedDWord(injected[1].mouseData) = d

(* C9 as claimed: handling the queued message always emits exactly one        *)
(* synthesized wheel event carrying the sum of the negated ticks.             *)
C9_AlwaysOneEvent ==
    JustFlushed =>
        /\ OneInjected(flushed.msg, NegatedSum(flushed.ticks))
        /\ PendingOf(flushed.msg) = 0
        /\ ~PostedFlagOf(flushed.msg)

(* C9, amended: the accumulator of an axis is the sum of the negated ticks    *)
(* that reached the filter since its last flush and at most one message per   *)
(* axis is queued; handling the message emits exactly one synthesized wheel   *)
(* event carrying that sum when the sum is not zero and none when it is zero, *)
(* and leaves the accumulator zero and the queued flag clear.                 *)
C9_Coalesced ==
    /\ pending_vscroll = NegatedSum(ticksV)
    /\ pending_hscroll = NegatedSum(ticksH)
    /\ Posted(WM_APP_INJECT_VSCROLL) <= 1
    /\ Posted(WM_APP_INJECT_HSCROLL) <= 1
    /\ JustFlushed =>
        /\ flushed.ticks # <<>>
        /\ IF NegatedSum(flushed.ticks) # 0
           THEN OneInjected(flushed.msg, NegatedSum(flushed.ticks))
           ELSE injected = <<>>
        /\ PendingOf(flushed.msg) = 0
        /\ ~PostedFlagOf(flushed.msg)

(* a single tick of +120 was flushed as one event of -120 *)
C9_Witness ==
    /\ flushed = [msg |-> WM_APP_INJECT_VSCROLL, ticks |-> <<120>>]
    /\ OneInjected(WM_APP_INJECT_VSCROLL, -120)
    /\ pending_vscroll = 0
    /\ msgq = <<>>

(* C10 as claimed: the ticks +3, -5, +1 are flushed as one event of -1. *)
C10_DeltaMinusOne ==
    flushed = [msg |-> WM_APP_INJECT_VSCROLL, ticks |-> <<3, -5, 1>>] =>
        /\ OneInjected(WM_APP_INJECT_VSCROLL, -1)
        /\ pending_vscroll = 0

(* C10, amended: the ticks +3, -5, +1 are flushed as one event of +1, the sum *)
(* of the negated deltas, and the vertical accumulator is zero afterwards.    *)
C10_DeltaPlusOne ==
    flushed = [msg |-> WM_APP_INJECT_VSCROLL, ticks |-> <<3, -5, 1>>] =>
        /\ OneInjected(WM_APP_INJECT_VSCROLL, 1)
        /\ pending_vscroll = 0

C10_Witness ==
    /\ flushed = [msg |-> WM_APP_INJECT_VSCROLL, ticks |-> <<3, -5, 1>>]
    /\ Len(injected) = 1
    /\ pending_vscroll = 0

----------------------------------------------------------------------------
(* Claims about the HID++ listener *)

ContainsGesture(raw) ==
    \E i \in {4, 6} : i + 1 <= Len(raw) /\ raw[i] = 0 /\ raw[i + 1] = CID_GESTURE
                      /\ \A j \in {4, 6} : j < i => (raw[j] # 0 \/ raw[j + 1] # 0)

(* the callbacks owed to a sequence of control reports by a handler that     *)
(* starts with the control released                                          *)
RECURSIVE Edges(_, _)
Edges(reports, was_held) ==
    IF reports = <<>> THEN <<>>
    ELSE LET now == ContainsGesture(Head(reports))
         IN  (IF now /\ ~was_held THEN <<"down">>
              ELSE IF ~now /\ was_held THEN <<"up">> ELSE <<>>)
             \o Edges(Tail(reports), now)

(* C4: in a session the callbacks the notification handler has made are      *)
(* exactly the edges of the control reports it was handed: a burst of        *)
(* reports that all contain the gesture identifier makes one down callback,  *)
(* the first report without it makes one up callback, further reports        *)
(* without it make none.                                                     *)
C4_OneCallbackPerEdge ==
    hidObs.cbLog = Edges(hidObs.reportLog, FALSE)

(* a burst of two reports with the identifier, then two without *)
C4_Witness ==
    /\ Len(hidObs.reportLog) = 4
    /\ ContainsGesture(hidObs.reportLog[1]) /\ ContainsGesture(hidObs.reportLog[2])
    /\ ~ContainsGesture(hidObs.reportLog[3]) /\ ~ContainsGesture(hidObs.reportLog[4])
    /\ hidObs.cbLog = <<"down", "up">>

(* C5 as claimed: a press of the gesture button seen on both channels        *)
(* dispatches gesture_down once and its release dispatches gesture_up once,  *)
(* whatever the order in which the two threads run.                          *)
C5_OneDispatchPerPress ==
    /\ gestureObs.downs <= 1
    /\ gestureObs.ups <= 1

ListenPcs == {"listen", "listen_rx"}

(* C6 as claimed: once a read has failed in Listen and the client is still   *)
(* running, the listener leaves Listen and tears the session down.           *)
C6_ReadFailureEndsSession ==
    (hidObs.rx_failed /\ hg.running) ~> (~hidObs.rx_failed \/ ~hg.running)

FeatureByte(raw) == raw[2]
TagNibble(raw) == raw[3] % 16

(* C7 as claimed: a request resolves with a response only on a report whose  *)
(* feature index and software id are the request's, and fails only by its    *)
(* timeout.                                                                  *)
C7_MatchOrTimeoutOnly ==
    hidObs.done.resolved =>
        IF hidObs.done.resp.ok
        THEN /\ FeatureByte(hidObs.done.raw) = hidObs.done.req.feat
             /\ TagNibble(hidObs.done.raw) = MY_SW
        ELSE hidObs.done.timed_out

(* C7, amended: a request resolves with a response only on a report whose    *)
(* feature index and software id are the request's; it fails by its timeout  *)
(* or on an error report (feature index 0xFF), whatever the software id of   *)
(* that report; every other report leaves it pending.                        *)
C7_MatchErrorOrTimeout ==
    hidObs.done.resolved =>
        IF hidObs.done.resp.ok
        THEN /\ FeatureByte(hidObs.done.raw) = hidObs.done.req.feat
             /\ TagNibble(hidObs.done.raw) = MY_SW
             /\ ~hidObs.done.timed_out
        ELSE \/ hidObs.done.timed_out
             \/ /\ Len(hidObs.done.raw) >= 4
                /\ FeatureByte(hidObs.done.raw) = HIDPP_ERROR

(* the divert request was rejected by an error report *)
C7_Witness ==
    /\ hidObs.done.resolved
    /\ hidObs.done.req.caller = "divert"
    /\ ~hidObs.done.resp.ok /\ ~hidObs.done.timed_out
    /\ FeatureByte(hidObs.done.raw) = HIDPP_ERROR

(* C8: at most one request has been transmitted and not yet resolved, and    *)
(* it is the one the listener thread is waiting on.                          *)
C8_OneRequestInFlight ==
    /\ Len(hidObs.inflight) <= 1
    /\ hidObs.inflight = IF lis.req.active THEN <<lis.req>> ELSE <<>>

(* a DPI write is in flight after discovery and divert have resolved *)
C8_Witness ==
    /\ Len(hidObs.inflight) = 1
    /\ hidObs.inflight[1].caller = "apply_dpi"
    /\ hg.feat_idx # PyNone

----------------------------------------------------------------------------
(* Claims about the binding interface, checked under SpecBindings *)

(* the handlers registered for kind k by the calls of log, in call order *)
RegisteredSince(log, k) ==
    LET regs == SelectSeq(log, LAMBDA o : o.op = "register" /\ o.evt = k)
    IN  [i \in 1..Len(regs) |-> regs[i].handler]

(* the kinds a call of log blocked and no later call of log unblocked *)
BlockedSince(log) ==
    {k \in Kinds : \E i \in 1..Len(log) :
        /\ log[i].op = "block" /\ log[i].evt = k
        /\ \A j \in (i + 1)..Len(log) : ~(log[j].op = "unblock" /\ log[j].evt = k)}

(* C11: once reset_bindings has been called, the handlers bound to every     *)
(* kind are exactly those registered since the last reset, in registration   *)
(* order, a dispatch invokes exactly those, and when the reset has returned  *)
(* the blocked set is exactly the kinds blocked (and not unblocked again)    *)
(* since the reset.                                                          *)
C11_BoundSinceReset ==
    [][ api.reset =>
          /\ \A k \in Kinds : callbacks[k] = RegisteredSince(api.log, k)
          /\ api.pc = "idle" => blocked_events = BlockedSince(api.log)
          /\ FilterReturnsFromDispatch =>
                dispatched' = RegisteredSince(api.log, f_event) ]_vars

(* after a reset two handlers were registered for the kind the initial table *)
(* bound to alt_tab, and a dispatch invoked the two, in order                *)
C11_Witness ==
    /\ api.reset /\ api.pc = "idle"
    /\ fpc = "idle" /\ f_event = "xbutton1_down"
    /\ dispatched = <<Handler("xbutton1_down", "paste"), Handler("xbutton1_down", "copy")>>
    /\ blocked_events = {}
    /\ ret = "next"

----------------------------------------------------------------------------
(* Claims about profile lookup, checked under SpecLookup *)

IsLetter(c) == c \in 65..90 \/ c \in 97..122

(* two names equal up to the case of their letters *)
SameIgnoringCase(a, b) ==
    /\ Len(a) = Len(b)
    /\ \A i \in 1..Len(a) :
          \/ a[i] = b[i]
          \/ IsLetter(a[i]) /\ IsLetter(b[i]) /\ (a[i] - b[i] = 32 \/ b[i] - a[i] = 32)

(* the profiles whose application list holds the name, case ignored *)
Matching(profiles, exe_name) ==
    {i \in 1..Len(profiles) :
        \E k \in 1..Len(profiles[i].apps) : SameIgnoringCase(profiles[i].apps[k], exe_name)}

(* C12: the lookup returns a profile whose application list holds the        *)
(* executable name, case ignored, and the default profile when no profile's  *)
(* list holds it or the name is empty.                                       *)
C12_LookupIgnoresCase ==
    lookup.result # "none" =>
        LET m == Matching(lookup.profiles, lookup.exe)
        IN  IF lookup.exe # <<>> /\ m # {}
            THEN \E i \in m : lookup.result = lookup.profiles[i].name
            ELSE lookup.result = "default"

(* "ab" is found in the second per-application profile, which lists "Ab" *)
C12_Witness ==
    /\ lookup.result = "p2"
    /\ lookup.exe = <<97, 98>>
    /\ lookup.profiles[3].apps = << <<65, 98>> >>

----------------------------------------------------------------------------
(* Claims about the filter's paths, checked under SpecInjected *)

(* the step is a call of the filter: the message's time stamp is new *)
FilterCalled == f_in'.time # f_in.time

(* bit 0 of MSLLHOOKSTRUCT.flags, LLMHF_INJECTED, is set in the message *)
Synthesized(m) == m.flags % 2 = 1

(* C13: a call of the filter on a message carrying the injected flag         *)
(* classifies and dispatches nothing, leaves both scroll accumulators, the   *)
(* posted flags and the message queue as they were, and forwards the message *)
(* to the next filter.                                                       *)
C13_InjectedIgnored ==
    [][ (FilterCalled /\ Synthesized(f_in')) =>
            /\ ret' = "next"
            /\ fpc' = "idle"
            /\ f_event' = "none"
            /\ dispatched' = <<>> /\ fired' = <<>>
            /\ UNCHANGED <<pending_vscroll, pending_hscroll, vscroll_posted,
                           hscroll_posted, msgq, ticksV, ticksH>> ]_vars

(* a synthesized wheel tick went through while vertical inversion was on and *)
(* ticks were pending; a synthesized press of a blocked button is C13_Press  *)
C13_Witness ==
    /\ Synthesized(f_in)
    /\ f_in.wParam = WM_MOUSEWHEEL
    /\ invert_vscroll /\ pending_vscroll # 0
    /\ "xbutton1_down" \in blocked_events
    /\ ret = "next"

(* the step ends a call of the filter, early or after _dispatch *)
FilterReturned == fpc' = "idle" /\ (FilterCalled \/ FilterReturnsFromDispatch)

(* the paths that suppress the message: an inverted wheel tick, or a kind in *)
(* the blocked set                                                            *)
Suppresses(m) ==
    /\ m.nCode = HC_ACTION
    /\ ~Synthesized(m)
    /\ \/ m.wParam = WM_MOUSEWHEEL /\ invert_vscroll /\ hiword(m.mouse_data) # 0
       \/ m.wParam = WM_MOUSEHWHEEL /\ invert_hscroll /\ hiword(m.mouse_data) # 0
       \/ SymbolicKind(m) \in blocked_events

(* C14 as claimed: every return of the filter callback, the early ones       *)
(* included, is made through the pass-to-next-filter primitive.               *)
C14_AlwaysForwarded ==
    [][ FilterReturned => ret' = "next" ]_vars

(* C14: the filter callback returns through the pass-to-next-filter          *)
(* primitive on every path that does not suppress the message (a code other  *)
(* than HC_ACTION, an injected message, an unclassified or unblocked kind, a *)
(* wheel tick that is not inverted); on the paths that suppress it (a kind   *)
(* in the blocked set, an inverted non-zero wheel tick) it returns 1 and the *)
(* primitive is not called.                                                  *)
C14_ForwardedUnlessSuppressed ==
    [][ FilterReturned =>
            ret' = IF Suppresses(f_in') THEN "block" ELSE "next" ]_vars

(* the press of a blocked side button came back from _dispatch as "block"    *)
C14_Witness ==
    /\ fpc = "idle"
    /\ ret = "block"
    /\ f_in.wParam = WM_XBUTTONDOWN /\ ~Synthesized(f_in)
    /\ dispatched # <<>>

----------------------------------------------------------------------------
(* Claims about the DPI interface, checked under SpecHid *)

(* C15 as claimed: whatever value set_dpi is called with, the value it puts  *)
(* in the pending slot, the one the listener later sends to the device, is   *)
(* max(200, min(8000, value)).                                               *)
C15_ClampedTo8000 ==
    [][ \A v \in DpiInputs :
            set_dpi(v) => hg'.pending_dpi = PyInt(Max(200, Min(8000, v))) ]_vars

----------------------------------------------------------------------------
(* Claims about failing handlers, checked under SpecBindings *)

(* C16: whichever of the handlers registered for the kind raise an Exception *)
(* during a dispatch, every handler registered for the kind is invoked, in   *)
(* order, nothing leaves _dispatch, and the filter returns the verdict it    *)
(* would have returned had none of them raised.                              *)
C16_FailuresIsolated ==
    [][ FilterReturnsFromDispatch =>
            /\ dispatched' = callbacks[f_event]
            /\ raised' \subseteq 1..Len(callbacks[f_event])
            /\ ret' = IF f_should_block THEN "block" ELSE "next" ]_vars

(* the first of two handlers raised, the second still ran, the press was     *)
(* suppressed as its kind is blocked                                         *)
C16_Witness ==
    /\ fpc = "idle"
    /\ raised = {1}
    /\ Len(dispatched) = 2
    /\ f_should_block /\ ret = "block"

----------------------------------------------------------------------------
(* Claims about stopping, checked under SpecStop *)

(* C17: a call of MouseHook.stop, and the call of HidGestureListener.stop it *)
(* makes, returns to its caller whatever the hook thread and the listener    *)
(* thread do, as long as the calling thread itself is scheduled.             *)
C17_StopReturns == (stopper.pc # "idle") ~> (stopper.pc = "returned")

(* stop returned while the listener thread and the hook thread, busy in a    *)
(* handler, were both still alive: both joins timed out                      *)
C17_Witness ==
    /\ stopper.pc = "returned"
    /\ ListenerAlive
    /\ stopper.thread = "pump" /\ fpc = "dispatch"

(* the caller leaves set_dpi / read_dpi on this step *)
SetDpiReturns  == caller.pc = "set_wait" /\ caller'.pc = "idle"
ReadDpiReturns == caller.pc = "read_wait" /\ caller'.pc = "idle"

(* C18 as claimed: set_dpi returns a boolean and read_dpi returns a DPI      *)
(* value or None, and a call whose request the listener has not taken when   *)
(* the polls run out, or that finds no device connected, reports False /     *)
(* None.                                                                     *)
C18_PlainResults ==
    [][ /\ SetDpiReturns =>
              /\ caller'.ret.t = "bool"
              /\ (hg.pending_dpi # PyNone \/ hg.dpi_idx = PyNone)
                    => caller'.ret = PyBool(FALSE)
        /\ ReadDpiReturns =>
              /\ caller'.ret.t \in {"int", "None"}
              /\ (hg.pending_dpi # PyNone \/ hg.dpi_idx = PyNone)
                    => caller'.ret = PyNone ]_vars

----------------------------------------------------------------------------
(* Claims about profile switches, checked under SpecSwitch *)

(* the step is one of _switch_profile, made by the poller thread *)
SwitchStep ==
    /\ epc["poller"] \notin {"idle", "sw_notify"}
    /\ epc'["poller"] # epc["poller"] \/ eops' # eops \/ lock' # lock

(* C19: no step of a profile switch changes anything but the active profile  *)
(* (cfg.active_profile, _current_profile) and the hook's binding table       *)
(* (handlers, blocked set, inversion flags): the filter and the hidden       *)
(* window stay installed, the hook thread's queue, accumulators and gesture  *)
(* state are untouched, and so are the listener object (device handle,       *)
(* feature indices, held flag), its thread and the device.                   *)
C19_SwitchKeepsSession ==
    [][ SwitchStep =>
            /\ UNCHANGED <<hook, ri_hwnd, msgq, pending_vscroll, pending_hscroll,
                           vscroll_posted, hscroll_posted, gesture_active,
                           prev_raw_buttons, filterVars>>
            /\ UNCHANGED <<hidapi_ok, hg, lis, device, stopper, enabled>>
            /\ cfg' = [cfg EXCEPT !.active_profile = cfg'.active_profile] ]_vars

(* a switch to the media profile has completed while the gesture button was  *)
(* held and the session was open                                             *)
C19_Witness ==
    /\ epc["poller"] = "idle"
    /\ current_profile = "media" /\ profile_cb = "media"
    /\ blocked_events # {}
    /\ hook /\ ri_hwnd
    /\ hg.held /\ hg.dev = "open" /\ device.diverted

----------------------------------------------------------------------------
(* Claims about the engine's lock, checked under SpecRewire *)

(* thread t is between taking the lock and releasing it *)
InRewire(t) == epc[t] \notin {"idle", "sw_lock", "sw_notify"}

(* the table is the whole table of one profile *)
CompleteTable ==
    \E p \in Profiles :
        /\ callbacks = FullTable(p).callbacks
        /\ blocked_events = FullTable(p).blocked

(* C20: the poller's profile switch and the UI's reload are never inside     *)
(* their locked sections together, the thread inside is the one holding the  *)
(* lock, and whenever the lock is free the binding table is the complete     *)
(* table of one profile, never a mixture of two rebuilds.                    *)
C20_RewiringSerialized ==
    /\ ~(InRewire("poller") /\ InRewire("ui"))
    /\ \A t \in {"poller", "ui"} : InRewire(t) <=> lock = t
    /\ lock = "free" => CompleteTable

(* the poller wants to switch profiles and waits: the UI thread holds the    *)
(* lock and is half way through rebuilding the table                         *)
C20_Witness ==
    /\ epc["poller"] = "sw_lock"
    /\ lock = "ui"
    /\ epc["ui"] = "setup_ops"
    /\ blocked_events # {} /\ eops # <<>>
    /\ ~CompleteTable

----------------------------------------------------------------------------
(* Claims about the table a rewiring builds, checked under SpecSetup *)

ActionOf(key) == MappingGet(wired, key)

(* the gesture control has an action and the middle button has none *)
MiddleStandsForGesture == ActionOf("gesture") # "none" /\ ActionOf("middle") = "none"

(* a handler made for a button, or for a horizontal-scroll direction, that   *)
(* executes action a                                                         *)
ButtonHandler(a) == [maker |-> "button", action |-> a]
ScrollHandler(a) == [maker |-> "hscroll", action |-> a]

DownOf(key) == BUTTON_TO_EVENTS(key)[1]
UpOf(key)   == BUTTON_TO_EVENTS(key)[2]

(* C21: after a rewiring for mappings M, a button with an action has its     *)
(* down and up kinds blocked, exactly one handler, executing the action, on  *)
(* its down kind and none on its up kind; a scroll direction with an action  *)
(* is blocked and carries exactly one handler executing it; a button or      *)
(* direction without an action is not blocked and carries no handler, the    *)
(* middle button standing in for the gesture control excepted.               *)
C21_TableFromMappings ==
    wired # <<>> =>
        /\ \A key \in {"middle", "gesture", "xbutton1", "xbutton2"} :
              IF ActionOf(key) # "none"
              THEN /\ {DownOf(key), UpOf(key)} \subseteq blocked_events
                   /\ callbacks[DownOf(key)] = <<ButtonHandler(ActionOf(key))>>
                   /\ callbacks[UpOf(key)] = <<>>
              ELSE \/ key = "middle" /\ MiddleStandsForGesture
                   \/ /\ {DownOf(key), UpOf(key)} \cap blocked_events = {}
                      /\ callbacks[DownOf(key)] = <<>>
                      /\ callbacks[UpOf(key)] = <<>>
        /\ \A key \in {"hscroll_left", "hscroll_right"} :
              IF ActionOf(key) # "none"
              THEN /\ key \in blocked_events
                   /\ callbacks[key] = <<ScrollHandler(ActionOf(key))>>
              ELSE /\ key \notin blocked_events
                   /\ callbacks[key] = <<>>

(* a table rebuilt for mappings that give the second side button and one    *)
(* scroll direction an action and leave the first side button alone          *)
C21_Witness ==
    /\ wired # <<>>
    /\ ActionOf("xbutton1") = "none" /\ ActionOf("xbutton2") = "paste"
    /\ ActionOf("hscroll_left") = "copy" /\ ActionOf("hscroll_right") = "none"
    /\ "xbutton2_up" \in blocked_events
    /\ callbacks["hscroll_left"] # <<>>

(* C22: after a rewiring, when the gesture control has an action and the    *)
(* middle button has none, middle-down and middle-up are blocked and         *)
(* middle-down carries one handler, executing the gesture action; when       *)
(* neither has an action the middle button is left alone; when the middle    *)
(* button has its own action, middle-down carries only that action's         *)
(* handler.                                                                  *)
C22_MiddleFallback ==
    wired # <<>> =>
        IF MiddleStandsForGesture
        THEN /\ {"middle_down", "middle_up"} \subseteq blocked_events
             /\ callbacks["middle_down"] = <<ButtonHandler(ActionOf("gesture"))>>
             /\ callbacks["middle_up"] = <<>>
        ELSE IF ActionOf("middle") = "none"
        THEN /\ {"middle_down", "middle_up"} \cap blocked_events = {}
             /\ callbacks["middle_down"] = <<>>
             /\ callbacks["middle_up"] = <<>>
        ELSE /\ {"middle_down", "middle_up"} \subseteq blocked_events
             /\ callbacks["middle_down"] = <<ButtonHandler(ActionOf("middle"))>>
             /\ callbacks["middle_up"] = <<>>

(* a middle press was suppressed and ran the gesture action's handler        *)
C22_Witness ==
    /\ MiddleStandsForGesture
    /\ fpc = "idle"
    /\ f_in.wParam = WM_MBUTTONDOWN
    /\ ret = "block"
    /\ dispatched = <<ButtonHandler("paste")>>

----------------------------------------------------------------------------
(* Claims about foreground-application changes, checked under SpecRewire *)

(* the step is a notification of the application detector *)
AppChanged == last_exe' # last_exe

(* C23: a notification whose executable resolves to the profile that is      *)
(* current leaves the binding table, the inversion flags, the configuration  *)
(* and the current profile as they are, starts no switch and does not call   *)
(* the profile-change callback.                                              *)
C23_SameProfileNoOp ==
    [][ (AppChanged /\ get_profile_for_app(CfgProfiles, last_exe') = current_profile) =>
            /\ UNCHANGED <<callbacks, blocked_events, invert_vscroll, invert_hscroll>>
            /\ UNCHANGED <<cfg, current_profile, profile_cb>>
            /\ UNCHANGED <<epc, etarget, eops, lock>> ]_vars

(* Notepad came to the foreground while the default profile was current and  *)
(* no switch has ever been made                                              *)
C23_Witness ==
    /\ last_exe = Notepad_exe
    /\ current_profile = "default"
    /\ epc["poller"] = "idle" /\ etarget = "none"
    /\ profile_cb = "none"
    /\ callbacks = FullTable("default").callbacks

----------------------------------------------------------------------------
(* Claims about the listener's sessions, checked under SpecHid *)

(* C24 as claimed: whenever the listener waits to retry discovery, after a   *)
(* session was torn down or a connection attempt abandoned, the handle is    *)
(* closed and absent, the control-reprogramming and DPI feature indices are  *)
(* cleared and the held flag is false.                                       *)
C24_SessionReset ==
    lis.pc = "backoff" =>
        /\ hg.dev = "none"
        /\ hg.feat_idx = PyNone
        /\ hg.dpi_idx = PyNone
        /\ ~hg.held

----------------------------------------------------------------------------
(* Claims about wheel messages, checked under SpecFilter *)

(* a non-zero tick of an axis whose inversion is on *)
InvertedTick(m) ==
    /\ m.nCode = HC_ACTION /\ ~Synthesized(m)
    /\ hiword(m.mouse_data) # 0
    /\ \/ m.wParam = WM_MOUSEWHEEL /\ invert_vscroll
       \/ m.wParam = WM_MOUSEHWHEEL /\ invert_hscroll

DeferredFor(m) ==
    IF m.wParam = WM_MOUSEWHEEL THEN WM_APP_INJECT_VSCROLL ELSE WM_APP_INJECT_HSCROLL

PostedIn(q, msg) == Cardinality({i \in 1..Len(q) : q[i] = msg})

(* C25: a non-zero tick of an inverted axis is classified to no kind and     *)
(* dispatched to no handler, the call returns "block", and the deferred      *)
(* message of the axis is posted by it only when none is queued; so the      *)
(* queue never holds two deferred messages of one axis, and a step of the    *)
(* hook thread emits at most one synthesized wheel event.                    *)
C25_InvertedTickDeferred ==
    [][ /\ (FilterCalled /\ InvertedTick(f_in')) =>
              /\ ret' = "block" /\ fpc' = "idle"
              /\ f_event' = "none" /\ dispatched' = <<>> /\ fired' = <<>>
              /\ \/ msgq' = msgq
                 \/ /\ PostedIn(msgq, DeferredFor(f_in')) = 0
                    /\ msgq' = Append(msgq, DeferredFor(f_in'))
        /\ PostedIn(msgq', WM_APP_INJECT_VSCROLL) <= 1
        /\ PostedIn(msgq', WM_APP_INJECT_HSCROLL) <= 1
        /\ Len(injected') <= 1 ]_vars

(* a second inverted vertical tick was suppressed while the message posted   *)
(* for the first was still queued                                            *)
C25_Witness ==
    /\ invert_vscroll
    /\ f_in.wParam = WM_MOUSEWHEEL /\ ~Synthesized(f_in)
    /\ ret = "block"
    /\ Len(ticksV) = 2
    /\ PostedIn(msgq, WM_APP_INJECT_VSCROLL) = 1

(* C26 as claimed: when the filter could not be installed or the hidden     *)
(* window could not be created, the hook component is not running: the       *)
(* filter is not called, so no message is classified or suppressed and no    *)
(* tick is accumulated.                                                      *)
C26_NoStartOnRefusal ==
    [][ ~(hook /\ ri_hwnd) =>
            /\ ~FilterCalled
            /\ UNCHANGED <<pending_vscroll, pending_hscroll>> ]_vars

----------------------------------------------------------------------------
(* Claims about the device handle, checked under SpecHid *)

(* C27 as claimed: the handle is closed only by a step of the listener       *)
(* thread, and a step of a thread calling set_dpi or read_dpi touches        *)
(* neither the handle nor the device: it only writes the pending slot.       *)
C27_HandleOwnedByListener ==
    [][ /\ (hg.dev # "none" /\ hg'.dev = "none") => lis' # lis
        /\ (caller' # caller) => (hg'.dev = hg.dev /\ device' = device) ]_vars


(* The signed wheel delta of a message: the high word of mouseData as a
   16-bit two's complement number. *)
WheelDelta(m) ==
    IF m.mouse_data.hi >= 32768 THEN m.mouse_data.hi - 65536 ELSE m.mouse_data.hi

(* A wheel message from the device that the filter handles. *)
DeviceTick(m, wParam) ==
    m.nCode = HC_ACTION /\ ~Synthesized(m) /\ m.wParam = wParam

(* C28: with horizontal inversion off, a horizontal tick becomes exactly
   one scroll-left event when its delta is positive and one scroll-right
   event when it is negative, with the absolute delta as magnitude, and no
   event when the delta is zero; with vertical inversion off, a vertical
   tick becomes no event and is forwarded. *)
C28_TicksClassifiedBySign ==
    [][FilterCalled =>
        /\ (DeviceTick(f_in', WM_MOUSEHWHEEL) /\ ~invert_hscroll) =>
              LET delta == WheelDelta(f_in') IN
              IF delta > 0
              THEN fpc' = "dispatch" /\ f_event' = "hscroll_left"
                   /\ f_raw_data' = delta
              ELSE IF delta < 0
              THEN fpc' = "dispatch" /\ f_event' = "hscroll_right"
                   /\ f_raw_data' = 0 - delta
              ELSE fpc' = "idle" /\ f_event' = "none" /\ ret' = "next"
                   /\ dispatched' = <<>>
        /\ (DeviceTick(f_in', WM_MOUSEWHEEL) /\ ~invert_vscroll) =>
              /\ fpc' = "idle" /\ f_event' = "none" /\ ret' = "next"
              /\ dispatched' = <<>>]_vars

(* A negative horizontal tick classified as scroll-right with a positive
   magnitude, inversion off. *)
C28_Witness ==
    /\ fpc = "dispatch"
    /\ ~invert_hscroll
    /\ DeviceTick(f_in, WM_MOUSEHWHEEL)
    /\ WheelDelta(f_in) < 0
    /\ f_event = "hscroll_right"
    /\ f_raw_data = 120

----------------------------------------------------------------------------
(* Claims about the middle button and the protocol session, checked under   *)
(* SpecFallback                                                              *)

(* the step is the dispatch of a classified middle press *)
MiddlePressDispatched ==
    fpc = "dispatch" /\ fpc' = "idle" /\ f_event = "middle_down"

(* C29: while the listener holds an open protocol session, the dispatch of   *)
(* a middle press never executes the gesture control's action.               *)
C29_NoGestureWhileConnected ==
    [][(MiddlePressDispatched /\ hg.dev = "open" /\ ActionOf("gesture") # "none") =>
         \A i \in 1..Len(fired') : fired'[i] # ActionOf("gesture")]_vars

----------------------------------------------------------------------------
(* Claims about the decoding of notifications, checked under SpecReport *)

(* the step is the listener reading a report off the open handle *)
ReportRead ==
    /\ lis.pc = "listen_rx"
    /\ hg.dev = "open"
    /\ device.inq # <<>>
    /\ device'.inq = Tail(device.inq)

(* where the device index of a report stands: after the report id, if any *)
DevAt(raw) == IF raw[1] \in {16, 17} THEN 2 ELSE 1

(* a report of the controls feature with function 0 *)
IsNotification(raw, feat_idx) ==
    /\ Len(raw) >= 4
    /\ DevAt(raw) + 2 <= Len(raw)
    /\ feat_idx = [t |-> "int", n |-> raw[DevAt(raw) + 1]]
    /\ raw[DevAt(raw) + 2] \div 16 = 0

(* the k-th 16-bit identifier of the parameters, high byte first *)
CidAt(raw, k) ==
    raw[DevAt(raw) + 2 * k + 1] * 256 + raw[DevAt(raw) + 2 * k + 2]

(* the gesture control's identifier stands before the first zero identifier *)
GestureListed(raw) ==
    \E k \in 1..((Len(raw) - DevAt(raw) - 2) \div 2) :
        /\ CidAt(raw, k) = 195
        /\ \A j \in 1..(k - 1) : CidAt(raw, j) # 0

(* C30: when the listener reads a report of the controls feature with        *)
(* function 0, the gesture control is held afterwards exactly when its       *)
(* identifier is among the big-endian 16-bit identifiers that precede the    *)
(* first zero identifier; a report with another feature index or function    *)
(* leaves the held state as it was.                                          *)
C30_HeldFromNotification ==
    [][ReportRead =>
         LET raw == Head(device.inq)
         IN  IF IsNotification(raw, hg.feat_idx)
             THEN hg'.held = GestureListed(raw)
             ELSE hg'.held = hg.held]_vars

(* the listener read a report listing the gesture control and then one that  *)
(* lists it only after the terminator, and called the release callback       *)
C30_Witness ==
    LET log == hidObs.reportLog
    IN  /\ Len(log) >= 2
        /\ log[Len(log) - 1] = <<255, 9, 0, 0, 195, 0, 0>>
        /\ log[Len(log)] = <<255, 9, 0, 0, 0, 0, 195>>
        /\ device.inq = <<>>
        /\ ~hg.held
        /\ hidObs.cbLog # <<>>
        /\ hidObs.cbLog[Len(hidObs.cbLog)] = "up"

----------------------------------------------------------------------------
(* Claims about the raw-input path, checked under SpecRaw *)

(* the step is the window procedure taking a raw-input report *)
RawTaken == riq # <<>> /\ riq' = Tail(riq)

(* the bits of a button mask beyond the five standard buttons *)
ExtendedBits(raw_btns) == raw_btns \div 32

(* C31: a report of a vendor handle is compared, in its extended-button     *)
(* bits, with the previous report of the same handle: zero to non-zero is a  *)
(* gesture-down edge (dispatched unless the gesture is active already),      *)
(* non-zero to zero a gesture-up edge (dispatched if the gesture is active), *)
(* anything else no edge, and the handle's stored mask becomes the report's; *)
(* a report of another vendor's handle gives no edge and stores nothing.     *)
C31_RawEdges ==
    [][RawTaken =>
         LET m    == Head(riq)
             now  == ExtendedBits(m.ulRawButtons)
             prev == ExtendedBits(prev_raw_buttons[m.hDevice])
         IN  IF m.hDevice \in {"mx", "mx_usb"}
             THEN /\ prev_raw_buttons' =
                        [prev_raw_buttons EXCEPT ![m.hDevice] = m.ulRawButtons]
                  /\ (fpc' = "ri_down") = (prev = 0 /\ now # 0 /\ ~gesture_active)
                  /\ (fpc' = "ri_up") = (prev # 0 /\ now = 0 /\ gesture_active)
                  /\ fpc' \in {"ri_down", "ri_up", "idle"}
             ELSE /\ prev_raw_buttons' = prev_raw_buttons
                  /\ fpc' = "idle"]_vars

(* one handle went from one extended button to another without an edge, and  *)
(* the other handle's release then gave the gesture-up edge                  *)
C31_Witness ==
    /\ fpc = "ri_up"
    /\ prev_raw_buttons["mx"] = 64
    /\ prev_raw_buttons["mx_usb"] = 1
    /\ gesture_active

----------------------------------------------------------------------------
(* Claims about late answers, lost notifications and abandoned DPI values,   *)
(* checked under SpecHid                                                     *)

(* C32: a request that was resolved with a response was resolved by the      *)
(* answer to that very request: the response carries the device index and    *)
(* the function of the request, and its feature index and software id.       *)
C32_ResolvedByOwnResponse ==
    (hidObs.done.resolved /\ hidObs.done.resp.ok) =>
        /\ hidObs.done.raw[1] = hidObs.done.req.dev
        /\ FeatureByte(hidObs.done.raw) = hidObs.done.req.feat
        /\ hidObs.done.raw[3] \div 16 = hidObs.done.req.func
        /\ TagNibble(hidObs.done.raw) = MY_SW

(* the step takes the control-feature notification at the head of the        *)
(* handle's queue while the listener waits for the response to a request     *)
NotificationReadInRequest ==
    /\ lis.pc = "request"
    /\ device.inq # <<>>
    /\ ControlReport(Head(device.inq))
    /\ device'.inq = Tail(device.inq)

(* C33: a control-feature notification read while the listener waits for    *)
(* the response to a request is handed to the edge detector.  Checked under  *)
(* SpecBusy.                                                                 *)
C33_NotificationsReachDetector ==
    [][NotificationReadInRequest =>
         hidObs'.reportLog = Append(hidObs.reportLog, Head(device.inq))]_vars

(* the step sends a setSensorDpi request for the pending value *)
DpiSetSent == lis'.req.caller = "apply_dpi" /\ lis.req.caller # "apply_dpi"

(* C34: a DPI value is sent to the device only while the set_dpi call that   *)
(* enqueued it is still waiting: after set_dpi gave up and returned False    *)
(* its value is never sent.                                                  *)
C34_AbandonedDpiNotSent ==
    [][DpiSetSent => caller.pc = "set_wait"]_vars

(* C35: with set_dpi and read_dpi called from different threads, a request   *)
(* that a waiting caller enqueued is taken by the listener or stays, never   *)
(* replaced by another thread's, and read_dpi returns None or a DPI integer. *)
(* Checked under SpecBusy.                                                   *)
C35_OwnOutcome ==
    [][ /\ (caller.pc \in {"set_wait", "read_wait"} /\ hg.pending_dpi # PyNone) =>
              hg'.pending_dpi \in {hg.pending_dpi, PyNone}
        /\ (caller.pc = "read_wait" /\ caller'.pc = "idle") =>
              caller'.ret.t \in {"int", "None"} ]_vars

----------------------------------------------------------------------------
(* C36: for each axis the posted flag is set exactly when a deferred         *)
(* re-injection message of that axis waits in the hidden window's queue, and *)
(* a non-zero accumulator implies the flag is set.  Checked under            *)
(* SpecFilter: ticks, deliveries, stop and start, a refused window.          *)
C36_FlagMatchesQueue ==
    /\ vscroll_posted = (PostedIn(msgq, WM_APP_INJECT_VSCROLL) > 0)
    /\ hscroll_posted = (PostedIn(msgq, WM_APP_INJECT_HSCROLL) > 0)
    /\ pending_vscroll # 0 => vscroll_posted
    /\ pending_hscroll # 0 => hscroll_posted

----------------------------------------------------------------------------
(* C37: every press the session's edge detector sees (its held flag goes    *)
(* from False to True) dispatches a gesture-down, also in a session that     *)
(* follows one torn down while the control was held.  Checked under          *)
(* SpecReconnect, where the protocol channel is the only one.                *)
C37_PressDispatchesDown ==
    [][(~hg.held /\ hg'.held) => lis'.pc = "hid_down"]_vars

----------------------------------------------------------------------------
(* the listener is past a successful _try_connect: in its Listen loop, in a  *)
(* DPI request made from it, or in the cleanup after it                      *)
InSession ==
    \/ lis.pc \in {"listen", "listen_rx", "hid_down", "hid_up", "cleanup"}
    \/ lis.pc = "request" /\ lis.req.caller \in {"apply_dpi", "apply_read"}

(* C38: when the handle of an established session is closed while the       *)
(* device is there, the device has been told to stop diverting the gesture   *)
(* control, also when MouseHook.stop ends the session.  Checked under        *)
(* SpecHid.                                                                  *)
C38_UndivertBeforeClose ==
    [][(InSession /\ hg.dev = "open" /\ hg'.dev = "none" /\ device'.present) =>
          ~device'.diverted]_vars

----------------------------------------------------------------------------
(* C39: once a foreground executable has been notified and neither a switch *)
(* nor a reload is under way, the engine's current profile, and the binding  *)
(* table, are those of the profile selected for the executable notified      *)
(* last.  Checked under SpecHook.                                            *)
C39_ProfileFollowsForeground ==
    (last_exe # <<>> /\ lock = "free" /\ \A t \in {"poller", "ui"} : epc[t] = "idle") =>
        LET target == get_profile_for_app(CfgProfiles, last_exe)
        IN  /\ current_profile = target
            /\ callbacks = FullTable(target).callbacks
            /\ blocked_events = FullTable(target).blocked

----------------------------------------------------------------------------
(* the filter, idle after the press of a side button from the mouse, is     *)
(* called with the release of the same button                                *)
ReleaseAfterPress ==
    /\ FilterCalled
    /\ fpc = "idle"
    /\ f_in.nCode = HC_ACTION /\ f_in.wParam = WM_XBUTTONDOWN /\ ~Synthesized(f_in)
    /\ ret \in {"block", "next"}
    /\ f_in'.nCode = HC_ACTION /\ f_in'.wParam = WM_XBUTTONUP /\ ~Synthesized(f_in')
    /\ f_in'.mouse_data = f_in.mouse_data

(* C40: the release of a button gets the verdict its press got: suppressed  *)
(* if the press was suppressed, forwarded if it was forwarded, also when the *)
(* table was rewired in between.  Checked under SpecHook.                    *)
C40_SameVerdictForPressAndRelease ==
    [][ReleaseAfterPress => (f_should_block' = (ret = "block"))]_vars

====
